---- MODULE Spec2Model ----
(***************************************************************************)
(* A model of kittydiff's AI review core (src/src/backend/ai-reviewer.ts   *)
(* and src/src/backend/tools.ts): the bug normalizer, the tool sandbox's   *)
(* entry checks, executeToolCall, the tool-calling conversation driver     *)
(* runToolEnabledReviewForBugs and the retrying transport fetchWithRetry.  *)
(*                                                                         *)
(* The specifications share one set of variables; each leaves the          *)
(* variables of the other components untouched:                            *)
(*   SpecNorm    the normalizer applied to a model payload                 *)
(*   SpecTools   one executeToolCall on one tool call                      *)
(*   SpecDriver  one invocation of runToolEnabledReviewForBugs             *)
(*               (SpecDriverFair: every request and tool run settles)      *)
(*   SpecFetch   one call of fetchWithRetry (SpecFetchFair: with progress) *)
(*   SpecSandbox one call of readFile, searchRepo, runCheck or a git tool  *)
(*   SpecMap     reviewCodebase's indexing and file mapping               *)
(*   SpecReview  one review asked of startReviewAnimation or runReviewCli:  *)
(*               a diff review (reviewCode, the driver) or a codebase       *)
(*               review (reviewCodebase, its review pass as one step)       *)
(***************************************************************************)
EXTENDS Integers, Sequences, FiniteSets, TLC

VARIABLES
    \* ---- normalizer (SpecNorm)
    nPayload,       \* the payload handed to the normalizer
    nRoute,         \* "none" | "toolcall" | "content": how the payload arrived
    nOutcome,       \* what the normalizer (and the driver's check of it) produced
    \* ---- executeToolCall (SpecTools)
    tCall,          \* the tool call being executed
    tConfig,        \* the ToolsConfig in force
    tPc,            \* "ready" | "settled"
    tOutcome,       \* the settled promise of executeToolCall
    tHanded,        \* the limits handed to the sandbox operation
    \* ---- conversation driver (SpecDriver)
    maxToolCalls,   \* toolsConfig.maxToolCalls
    pc,             \* "loopTop" | "awaiting" | "executing" | "done" | "failed"
    toolCallCount,  \* the running tool-call counter
    messages,       \* the conversation
    batch,          \* tool_calls of the current model turn
    idx,            \* position in batch of the call being executed
    requests,       \* chat-completion requests sent so far
    executed,       \* ids of the calls handed to executeToolCall, in order
    emitted,        \* ids of the grounding calls the model emitted, in order
    nextId,         \* the next fresh tool-call id
    result,         \* the driver's terminal outcome
    \* ---- fetchWithRetry (SpecFetch)
    fMaxRetries,    \* maxRetries
    fPc,            \* position in fetchWithRetry
    attempt,        \* the for-loop variable
    callerAborted,  \* the per-attempt local flag
    signalAborted,  \* options.signal.aborted
    listening,      \* onCallerAbort is registered on the caller's signal
    ctrlAborted,    \* controller.signal.aborted (this attempt's controller)
    lastError,      \* lastError
    fLog,           \* what each started HTTP attempt ended with, in order
    fResult,        \* the returned response status, or 0
    \* ---- sandbox operations on a path, a revision, a command (SpecSandbox)
    sCall,          \* the operation called and its arguments
    sPc,            \* position in the operation
    sFx,            \* filesystem accesses and spawned processes, in order
    sResult,        \* the ToolResult returned
    \* ---- reviewCodebase, indexing and mapping (SpecMap)
    mAll,           \* index.paths
    mEntry,         \* index.entryPoints
    mMax,           \* maxFilesToSummarize
    mPc,            \* position in reviewCodebase
    mSelected,      \* selectedPaths
    mIdx,           \* files of selectedPaths digested so far
    mFx,            \* filesystem accesses made: what was done to which path
    mDigests,       \* paths of the digests collected
    \* ---- reviewCodebase, progress and model calls (SpecReview)
    pPc,            \* position in reviewCodebase
    pTotal,         \* totalFiles
    pSelected,      \* selectedPaths.length
    pI,             \* the loop variable i of the loop being run
    pDigests,       \* digests.length
    pBatches,       \* batches.length or folderBlocks.length of the loop being run
    pFolders,       \* folder summaries collected
    pInFlight,      \* model requests sent and not yet settled
    pCalls,         \* model requests sent
    pFailures,      \* model calls that failed
    pReports,       \* the calls of onProgress, in order
    pResult,        \* the AIReviewResponse returned
    \* ---- the callers, startReviewAnimation and runReviewCli (SpecReview)
    cMode,          \* "diff" | "codebase"
    cPath,          \* "interactive" | "headless"
    cDiff,          \* diffResult.diff
    cFiles,         \* diffResult.files.length
    cPc,            \* position in the caller
    cMessage,       \* the message the caller reports
    cReviewCalls,   \* calls of reviewCode or reviewCodebase
    cResponse,      \* the response the caller received
    \* ---- mapLimit (SpecLimit)
    lItems,         \* items
    lConcurrency,   \* concurrency
    lPc,            \* position in mapLimit
    nextIndex,      \* nextIndex
    workers,        \* per worker, the index its mapper call is awaited for
    lResults,       \* results
    lCalls,         \* per index, the mapper calls made for it
    \* ---- chunkByCharBudget (SpecChunk)
    kItems,         \* the rendered blocks of items, in order
    kPc,            \* "start" | "cut"
    chunks,         \* the lengths of the chunks returned
    \* ---- reviewCode and reviewCodebase under a tools policy (SpecPolicy)
    gEntry,         \* "reviewCode" | "reviewCodebase"
    gEnabled,       \* the caller's toolsConfig.enabled
    gMaxToolCalls,  \* the caller's toolsConfig.maxToolCalls
    gPc,            \* position in the entry point
    gRequest,       \* the body of the single-shot request, once sent
    gResponse,      \* tool_calls of the single-shot response
    gOutcome        \* what the entry point returned or threw

normVars   == <<nPayload, nRoute, nOutcome>>
toolVars   == <<tCall, tConfig, tPc, tOutcome, tHanded>>
driverVars == <<maxToolCalls, pc, toolCallCount, messages, batch, idx, requests,
                executed, emitted, nextId, result>>
fetchVars  == <<fMaxRetries, fPc, attempt, callerAborted, signalAborted,
                listening, ctrlAborted, lastError, fLog, fResult>>
sandboxVars == <<sCall, sPc, sFx, sResult>>
mapVars    == <<mAll, mEntry, mMax, mPc, mSelected, mIdx, mFx, mDigests>>
pipeVars   == <<pPc, pTotal, pSelected, pI, pDigests, pBatches, pFolders, pInFlight,
                pCalls, pFailures, pReports, pResult>>
callerVars == <<cMode, cPath, cDiff, cFiles, cPc, cMessage, cReviewCalls, cResponse>>
limitVars  == <<lItems, lConcurrency, lPc, nextIndex, workers, lResults, lCalls>>
chunkVars  == <<kItems, kPc, chunks>>
policyVars == <<gEntry, gEnabled, gMaxToolCalls, gPc, gRequest, gResponse, gOutcome>>
moreVars   == <<limitVars, chunkVars, policyVars>>
vars       == <<normVars, toolVars, driverVars, fetchVars, sandboxVars, mapVars,
                pipeVars, callerVars, moreVars>>

\* What each specification leaves untouched.
notNorm    == <<toolVars, driverVars, fetchVars, sandboxVars, mapVars,
                pipeVars, callerVars, moreVars>>
notTools   == <<normVars, driverVars, fetchVars, sandboxVars, mapVars,
                pipeVars, callerVars, moreVars>>
notDriver  == <<normVars, toolVars, fetchVars, sandboxVars, mapVars,
                pipeVars, callerVars, moreVars>>
notFetch   == <<normVars, toolVars, driverVars, sandboxVars, mapVars,
                pipeVars, callerVars, moreVars>>
notSandbox == <<normVars, toolVars, driverVars, fetchVars, mapVars,
                pipeVars, callerVars, moreVars>>
notPipeline == <<normVars, toolVars, driverVars, fetchVars, sandboxVars, mapVars,
                callerVars, moreVars>>
notReview  == <<normVars, toolVars, fetchVars, sandboxVars, mapVars, moreVars>>
notMap     == <<normVars, toolVars, driverVars, fetchVars, sandboxVars,
                pipeVars, callerVars, moreVars>>
notLimit   == <<normVars, toolVars, driverVars, fetchVars, sandboxVars, mapVars,
                pipeVars, callerVars, chunkVars, policyVars>>
notChunk   == <<normVars, toolVars, driverVars, fetchVars, sandboxVars, mapVars,
                pipeVars, callerVars, limitVars, policyVars>>
notPolicy  == <<normVars, toolVars, fetchVars, sandboxVars, mapVars,
                pipeVars, callerVars, limitVars, chunkVars>>

\* ---------------------------------------------------------------- bounds

\* Longest bugs array of a payload in SpecNorm.
MaxBugs == 2
\* Largest toolsConfig.maxToolCalls explored in SpecDriver.
MaxBudget == 3
\* Most tool calls in one model turn.
MaxBatch == 2
\* Largest maxRetries explored in SpecFetch.
MaxRetriesBound == 3
\* Most segments of a path handed to a sandbox operation.
MaxPathLen == 3
\* Most globs the model supplies to search_repo.
MaxGlobs == 1
\* Largest maxFilesToSummarize explored in SpecMap.
MaxMapFiles == 3
\* Most files buildCodebaseIndex lists in SpecReview.
MaxIndexed == 11
\* Most chunks chunkByCharBudget cuts a list into in SpecReview.
MaxChunks == 2
\* Longest diff getFullDiff returns in SpecReview.
MaxDiffLen == 2
\* Most items handed to mapLimit in SpecLimit.
MaxItems == 3
\* Most items handed to chunkByCharBudget in SpecChunk.
MaxBlocks == 3

\* ------------------------------------------------------------ JS values

(* A JSON value found in a line-number or severity field.  Numbers are kept *)
(* in halves (h = 2 * value) so that Math.floor has something to do.        *)
(*   num     a finite number h/2            numstr  a string Number() reads *)
(*   badstr  a string Number() cannot read  undef   the field is missing    *)
(*   null    JSON null                      true, false                     *)
(*   inf     a number literal that overflows to Infinity (1e999)            *)
JsVal(t, h) == [t |-> t, h |-> h]

Undefined == [ok |-> FALSE, v |-> 0]

Some(v) == [ok |-> TRUE, v |-> v]

\* a ?? b
Coalesce(a, b) == IF a.ok THEN a ELSE b

\* Number(value): fin = Number.isFinite, h = the value in halves.
ToNumber(value) ==
    CASE value.t = "num"    -> [fin |-> TRUE, h |-> value.h]
      [] value.t = "numstr" -> [fin |-> TRUE, h |-> value.h]
      [] value.t = "null"   -> [fin |-> TRUE, h |-> 0]
      [] value.t = "false"  -> [fin |-> TRUE, h |-> 0]
      [] value.t = "true"   -> [fin |-> TRUE, h |-> 2]
      [] OTHER              -> [fin |-> FALSE, h |-> 0]

\* Math.floor of a number kept in halves.
Floor(h) == h \div 2

\* ------------------------------------------------------- bug normalizer

VALID_SEVERITIES == {"critical", "major", "minor", "info"}

toSafeLineNumber(value) ==
    LET n == ToNumber(value)
        i == Floor(n.h)
    IN  IF ~n.fin THEN Undefined
        ELSE IF i < 1 THEN Undefined
        ELSE Some(i)

\* A validation that lets every string through.
validateSeverity_PassThrough(severity) ==
    IF severity.t = "str" THEN severity.s ELSE "info"

\* A severity field is a string (t = "str", s its text) or something else.
validateSeverity(severity) ==
    IF severity.t = "str" /\ severity.s \in VALID_SEVERITIES
    THEN severity.s
    ELSE "info"

\* One element of args.bugs, mapped to a Bug.
NormalizeBug(bug) ==
    [ severity  |-> validateSeverity(bug.severity),
      startLine |-> Coalesce(toSafeLineNumber(bug.startLine), Some(1)).v,
      endLine   |-> Coalesce(toSafeLineNumber(bug.endLine),
                             Coalesce(toSafeLineNumber(bug.startLine), Some(1))).v ]

(* A payload: json = "bad" (JSON.parse throws) or "ok"; hasBugs: the parsed *)
(* value is an object whose bugs field is an array; bugs: that array.  An   *)
(* element is a record of fields, or NullBug (JSON null), on which reading  *)
(* bug.severity throws a TypeError.                                         *)
NullBug ==
    [isNull |-> TRUE, severity |-> [t |-> "undef", s |-> ""],
     startLine |-> JsVal("undef", 0), endLine |-> JsVal("undef", 0)]

IsNullBug(bug) == bug.isNull

HasNullBug(bugs) == \E i \in 1..Len(bugs) : IsNullBug(bugs[i])

MapBugs(bugs) == [i \in 1..Len(bugs) |-> NormalizeBug(bugs[i])]

\* A thrown Error (n: the number its message states, 0 when it states none).
Threw(e)    == [kind |-> "error", error |-> e, bugs |-> <<>>, n |-> 0]

Returned(b) == [kind |-> "bugs", error |-> "", bugs |-> b, n |-> 0]

parseBugsFromToolCall(payload) ==
    IF payload.json = "bad" THEN Threw("parse")
    ELSE IF ~payload.hasBugs THEN Threw("missing-bugs")
    ELSE IF HasNullBug(payload.bugs) THEN Threw("type-error")
    ELSE Returned(MapBugs(payload.bugs))

\* Every failure inside the try block is swallowed and gives [].
tryParseFromContent(payload) ==
    IF payload.json = "bad" THEN <<>>
    ELSE IF ~payload.hasBugs THEN <<>>
    ELSE IF HasNullBug(payload.bugs) THEN <<>>
    ELSE MapBugs(payload.bugs)

\* The driver's use of the fallback on a turn with content and no tool call.
FallbackFromContent(payload) ==
    LET bugsFromContent == tryParseFromContent(payload)
    IN  IF Len(bugsFromContent) > 0
        THEN Returned(bugsFromContent)
        ELSE Threw("content-not-parsable")

\* ------------------------------------------------- idle component states

NoPayload == [json |-> "bad", hasBugs |-> FALSE, bugs |-> <<>>]

NoOutcome == [kind |-> "none", error |-> "", bugs |-> <<>>, n |-> 0]

IdleNorm ==
    /\ nPayload = NoPayload
    /\ nRoute = "idle"
    /\ nOutcome = NoOutcome

\* ------------------------------------------------------------- SpecNorm

LineVals ==
    { JsVal("undef", 0), JsVal("null", 0), JsVal("badstr", 0),
      JsVal("num", 0 - 2), JsVal("num", 2), JsVal("num", 7), JsVal("numstr", 4) }

SevStr(s) == [t |-> "str", s |-> s]

SevVals ==
    { SevStr("critical"), SevStr("major"), SevStr("minor"), SevStr("info"),
      SevStr("blocker"), [t |-> "num", s |-> ""], [t |-> "undef", s |-> ""] }

RawBug(sev, s, e) ==
    [isNull |-> FALSE, severity |-> sev, startLine |-> s, endLine |-> e]

RawBugs ==
    { RawBug(SevStr("major"), s, e) : s \in LineVals, e \in LineVals }
    \cup { RawBug(sev, JsVal("num", 2), JsVal("undef", 0)) : sev \in SevVals }
    \cup { NullBug }

SeqsUpTo(S, n) == UNION { [1..k -> S] : k \in 0..n }

NormPayloads ==
    { [json |-> "bad", hasBugs |-> FALSE, bugs |-> <<>>],
      [json |-> "ok",  hasBugs |-> FALSE, bugs |-> <<>>] }
    \cup { [json |-> "ok", hasBugs |-> TRUE, bugs |-> b] : b \in SeqsUpTo(RawBugs, MaxBugs) }

\* The normalizer is handed the arguments of the final-report tool call
\* (runToolEnabledReviewForBugs, the reviewCall branch).
NormalizeToolCall ==
    /\ nRoute = "none"
    /\ nRoute' = "toolcall"
    /\ nOutcome' = parseBugsFromToolCall(nPayload)
    /\ UNCHANGED nPayload

\* The normalizer is handed plain content (the no-tool-call branch).
NormalizeContent ==
    /\ nRoute = "none"
    /\ nRoute' = "content"
    /\ nOutcome' = FallbackFromContent(nPayload)
    /\ UNCHANGED nPayload

\* --------------------------------------------------------- tool sandbox

(* A tool call as the driver sees it.                                       *)
(*   json   "bad": arguments is not JSON; "null": it is JSON null; "obj"    *)
(*   arg    the tool's first argument (query, path, kind, rev):             *)
(*          "missing" (absent or falsy), "wrongtype" (truthy, not a         *)
(*          string), "invalid" (a string the operation's validation         *)
(*          refuses), "valid"                                               *)
(*   extra  the other arguments (globs, args, lineRange, grep):             *)
(*          "ok" or "wrongtype"                                             *)
(*   limit, timeout  the model's maxResults / maxBytes and timeoutMs,       *)
(*          Undefined when the call does not give them                      *)
(*   payload  the final-report arguments (report_code_review only)          *)
ToolNames ==
    {"search_repo", "read_file", "run_check", "git_blame", "git_log",
     "git_show", "dep_report"}

Resolved(success) == [kind |-> "resolved", success |-> success]

Rejected == [kind |-> "rejected", success |-> FALSE]

\* tools.ts searchRepo: the query check stands before the try block.
searchRepo(query, globs, io) ==
    IF query = "missing" THEN Resolved(FALSE)
    ELSE IF query = "wrongtype" THEN Rejected
    ELSE IF query = "invalid" THEN Resolved(FALSE)
    ELSE IF globs = "wrongtype" THEN Resolved(FALSE)
    ELSE Resolved(io = "ok")

\* tools.ts readFile: isPathWithinRepo (path.resolve) stands before the try block.
readFile(filePath, io) ==
    IF filePath = "missing" THEN Resolved(FALSE)
    ELSE IF filePath = "wrongtype" THEN Rejected
    ELSE IF filePath = "invalid" THEN Resolved(FALSE)
    ELSE Resolved(io = "ok")

\* tools.ts runCheck: an unknown kind has no CHECK_COMMANDS entry; the rest is
\* inside the try block, and the spawned command's promise only resolves.
runCheck(kind, args, io) ==
    IF kind # "valid" THEN Resolved(FALSE)
    ELSE IF args = "wrongtype" THEN Resolved(FALSE)
    ELSE Resolved(io = "ok")

\* tools.ts gitBlame.
gitBlame(filePath, lineRange, io) ==
    IF filePath = "missing" THEN Resolved(FALSE)
    ELSE IF filePath = "wrongtype" THEN Rejected
    ELSE IF filePath = "invalid" THEN Resolved(FALSE)
    ELSE IF lineRange = "wrongtype" THEN Resolved(FALSE)
    ELSE Resolved(io = "ok")

\* tools.ts gitLog: the path is optional.
gitLog(filePath, grep, io) ==
    IF filePath = "wrongtype" THEN Rejected
    ELSE IF filePath = "invalid" THEN Resolved(FALSE)
    ELSE IF grep = "wrongtype" THEN Resolved(FALSE)
    ELSE Resolved(io = "ok")

\* tools.ts gitShow: RegExp.test coerces its argument; git runs inside the try.
gitShow(rev, io) ==
    IF rev # "valid" THEN Resolved(FALSE)
    ELSE Resolved(io = "ok")

\* tools.ts depReport: everything is inside the try block.
depReport(io) == Resolved(io = "ok")

\* The seven operations tools.ts exports, by tool name.
SandboxOperation(name, arg, extra, io) ==
    CASE name = "search_repo" -> searchRepo(arg, extra, io)
      [] name = "read_file"   -> readFile(arg, io)
      [] name = "run_check"   -> runCheck(arg, extra, io)
      [] name = "git_blame"   -> gitBlame(arg, extra, io)
      [] name = "git_log"     -> gitLog(arg, extra, io)
      [] name = "git_show"    -> gitShow(arg, io)
      [] name = "dep_report"  -> depReport(io)

\* A minimum that always gives its first argument.
Min_First(a, b) == a

\* Math.min
Min(a, b) == IF a <= b THEN a ELSE b

RUN_CHECK_TIMEOUT_CAP == 60000

NotHanded == [handed |-> FALSE, tool |-> "", limit |-> 0, timeout |-> 0]

Handed(tool, limit, timeout) ==
    [handed |-> TRUE, tool |-> tool, limit |-> limit, timeout |-> timeout]

\* config.run_check.allowedKinds.includes(args.kind)
KindAllowed(call, config) ==
    call.arg \in {"valid", "invalid"} /\ config.kindAllowed

\* executeToolCall, the options it builds for the sandbox operation.
HandedLimits(call, config) ==
    IF call.json # "obj" THEN NotHanded
    ELSE CASE call.name = "search_repo" ->
                Handed("search_repo",
                       Coalesce(call.limit, Some(config.maxResults)).v,
                       Coalesce(call.timeout, Some(config.searchTimeoutMs)).v)
           [] call.name = "read_file" ->
                Handed("read_file", Coalesce(call.limit, Some(config.maxBytes)).v, 0)
           [] call.name = "run_check" /\ KindAllowed(call, config) ->
                Handed("run_check", 0,
                       Min(Coalesce(call.timeout, Some(config.checkTimeoutMs)).v,
                           RUN_CHECK_TIMEOUT_CAP))
           [] OTHER -> NotHanded

\* executeToolCall: the promise it returns.  Each case returns the sandbox
\* operation's promise without awaiting it, so the catch clause sees only what
\* is thrown synchronously (JSON.parse, reading a field of null).
executeToolCall(call, config, io) ==
    IF call.json = "bad" THEN Resolved(FALSE)
    ELSE IF call.json = "null" /\ call.name \in ToolNames \ {"dep_report"}
         THEN Resolved(FALSE)
    ELSE IF call.name \notin ToolNames THEN Resolved(FALSE)
    ELSE IF call.name = "run_check" /\ ~KindAllowed(call, config)
         THEN Resolved(FALSE)
    ELSE SandboxOperation(call.name, call.arg, call.extra, io)

IdleTools ==
    /\ tCall = "idle"
    /\ tConfig = "idle"
    /\ tPc = "idle"
    /\ tOutcome = Resolved(FALSE)
    /\ tHanded = NotHanded

\* ------------------------------------------------------------ SpecTools

ArgShapes == {"missing", "wrongtype", "invalid", "valid"}

ToolCall(name, json, arg, extra, limit, timeout) ==
    [name |-> name, json |-> json, arg |-> arg, extra |-> extra,
     limit |-> limit, timeout |-> timeout, id |-> 0, payload |-> NoPayload]

ToolCalls ==
    { ToolCall(name, json, arg, extra, limit, timeout) :
        name \in ToolNames \cup {"no_such_tool"},
        json \in {"bad", "null", "obj"},
        arg \in ArgShapes,
        extra \in {"ok", "wrongtype"},
        limit \in {Undefined, Some(1), Some(1000000)},
        timeout \in {Undefined, Some(1000), Some(100000)} }

ToolsConfig(maxResults, maxBytes, checkTimeoutMs, kindAllowed) ==
    [maxResults |-> maxResults, searchTimeoutMs |-> 10000, maxBytes |-> maxBytes,
     checkTimeoutMs |-> checkTimeoutMs, kindAllowed |-> kindAllowed]

\* core/config.ts DEFAULT_TOOLS_CONFIG
DEFAULT_TOOLS_CONFIG == ToolsConfig(50, 50000, 30000, TRUE)

ToolsConfigs ==
    { ToolsConfig(r, b, t, k) :
        r \in {50, 5}, b \in {50000, 1000}, t \in {30000, 90000}, k \in BOOLEAN }

IoOutcomes == {"ok", "fail"}

\* One executeToolCall runs to the settling of its promise.
ExecuteToolCall ==
    /\ tPc = "ready"
    /\ \E io \in IoOutcomes :
          tOutcome' = executeToolCall(tCall, tConfig, io)
    /\ tHanded' = HandedLimits(tCall, tConfig)
    /\ tPc' = "settled"
    /\ UNCHANGED <<tCall, tConfig>>

\* A sandbox operation is called directly with the call's arguments and runs
\* to the settling of its promise.
CallSandbox ==
    /\ tPc = "ready"
    /\ tCall.json = "obj"
    /\ tCall.name \in ToolNames
    /\ \E io \in IoOutcomes :
          tOutcome' = SandboxOperation(tCall.name, tCall.arg, tCall.extra, io)
    /\ tHanded' = NotHanded
    /\ tPc' = "returned"
    /\ UNCHANGED <<tCall, tConfig>>

\* -------------------------------------------------- conversation driver

Msg(role, id, calls, ok, nudge) ==
    [role |-> role, id |-> id, calls |-> calls, ok |-> ok, nudge |-> nudge]

SystemMsg       == Msg("system", 0, <<>>, TRUE, FALSE)

UserMsg         == Msg("user", 0, <<>>, TRUE, FALSE)

AssistantMsg(c) == Msg("assistant", 0, c, TRUE, FALSE)

ToolMsg(id, ok) == Msg("tool", id, <<>>, ok, FALSE)

\* "[System: You have used n of max tool calls. ...]"
NudgeMsg(n)     == Msg("user", n, <<>>, TRUE, TRUE)

Ids(calls) == [i \in 1..Len(calls) |-> calls[i].id]

\* A find that looks at the first tool call only.
FindReviewCall_FirstOnly(toolCalls) ==
    IF toolCalls # <<>> /\ toolCalls[1].name = "report_code_review" THEN 1 ELSE 0

\* toolCalls?.find(tc => tc.function.name === 'report_code_review'):
\* the position of the first final-report call, 0 when there is none.
FindReviewCall(toolCalls) ==
    IF \E i \in 1..Len(toolCalls) : toolCalls[i].name = "report_code_review"
    THEN CHOOSE i \in 1..Len(toolCalls) :
            /\ toolCalls[i].name = "report_code_review"
            /\ \A j \in 1..(i - 1) : toolCalls[j].name # "report_code_review"
    ELSE 0

\* A loop test that lets one more turn through.
LoopCondition_Inclusive(count, max) == count <= max

\* while (toolCallCount < maxToolCalls)
LoopCondition(count, max) == count < max

\* A batch loop without the early break.
BreakMidBatch_Never(count, max) == FALSE

\* A batch loop that breaks one call early.
BreakMidBatch_Early(count, max) == count >= max - 1

\* if (toolCallCount >= maxToolCalls) break
BreakMidBatch(count, max) == count >= max

\* if (toolCallCount >= maxToolCalls - 2 && toolCallCount < maxToolCalls)
NudgeDue(count, max) == count >= max - 2 /\ count < max

\* `AI used ${maxToolCalls} tool calls without producing a final review report`
BudgetError(max) == [kind |-> "error", error |-> "budget", bugs |-> <<>>, n |-> max]

IdleDriver ==
    /\ maxToolCalls = 0
    /\ pc = "idle"
    /\ toolCallCount = 0
    /\ messages = <<>>
    /\ batch = <<>>
    /\ idx = 0
    /\ requests = 0
    /\ executed = <<>>
    /\ emitted = <<>>
    /\ nextId = 1
    /\ result = NoOutcome

\* The head of the while loop, reached at the start and after each `continue`:
\* either the next request is sent or the budget error is thrown.
LoopHead(count) ==
    IF LoopCondition(count, maxToolCalls)
    THEN /\ pc' = "awaiting"
         /\ requests' = requests + 1
         /\ result' = result
    ELSE /\ pc' = "failed"
         /\ requests' = requests
         /\ result' = BudgetError(maxToolCalls)

\* runToolEnabledReviewForBugs is called: the conversation is set up and the
\* loop is entered.
StartDriver ==
    /\ pc = "start"
    /\ LoopHead(toolCallCount)
    /\ UNCHANGED <<maxToolCalls, toolCallCount, messages, batch, idx, executed,
                   emitted, nextId>>

\* fetchWithRetry throws, the response is not ok, or it has no choices[0].
ReceiveFailure ==
    /\ pc = "awaiting"
    /\ \E e \in {"transport", "http", "no-choices"} : result' = Threw(e)
    /\ pc' = "failed"
    /\ UNCHANGED <<maxToolCalls, toolCallCount, messages, batch, idx, requests,
                   executed, emitted, nextId>>

\* The grounding calls the model draws from in SpecDriver.
GroundingShapes ==
    { ToolCall("read_file", "obj", "valid", "ok", Undefined, Undefined),
      ToolCall("read_file", "obj", "invalid", "ok", Undefined, Undefined),
      ToolCall("search_repo", "bad", "valid", "ok", Undefined, Undefined),
      ToolCall("search_repo", "obj", "wrongtype", "ok", Undefined, Undefined),
      ToolCall("no_such_tool", "obj", "valid", "ok", Undefined, Undefined) }

OneBug == RawBug(SevStr("major"), JsVal("num", 2), JsVal("num", 4))

DriverPayloads ==
    { [json |-> "bad", hasBugs |-> FALSE, bugs |-> <<>>],
      [json |-> "ok",  hasBugs |-> FALSE, bugs |-> <<>>],
      [json |-> "ok",  hasBugs |-> TRUE,  bugs |-> <<>>],
      [json |-> "ok",  hasBugs |-> TRUE,  bugs |-> <<OneBug>>] }

ReportCall(payload) ==
    [name |-> "report_code_review", json |-> payload.json, arg |-> "valid",
     extra |-> "ok", limit |-> Undefined, timeout |-> Undefined, id |-> 0,
     payload |-> payload]

CallShapes == GroundingShapes \cup { ReportCall(p) : p \in DriverPayloads }

WithIds(shapes, first) ==
    [i \in 1..Len(shapes) |-> [shapes[i] EXCEPT !.id = first + i - 1]]

\* The grounding calls (all but the final-report calls) of a turn, in order.
RECURSIVE GroundingIds(_)
GroundingIds(calls) ==
    IF calls = <<>> THEN <<>>
    ELSE IF calls[1].name = "report_code_review"
         THEN GroundingIds(Tail(calls))
         ELSE <<calls[1].id>> \o GroundingIds(Tail(calls))

\* What the model answers with in SpecPolicy, where budgets of 20 and more
\* are run through: one grounding call a turn, or the final report.
PolicyTurns ==
    { <<ToolCall("read_file", "obj", "valid", "ok", Undefined, Undefined)>>,
      <<ToolCall("search_repo", "obj", "wrongtype", "ok", Undefined, Undefined)>>,
      <<ReportCall([json |-> "ok", hasBugs |-> TRUE, bugs |-> <<OneBug>>])>> }

\* The tool_calls a model turn may hold.
ModelTurns == IF gPc = "idle" THEN SeqsUpTo(CallShapes, MaxBatch) ELSE PolicyTurns

\* How the I/O of an executed tool may go.
ToolIo == IF gPc = "idle" THEN IoOutcomes ELSE {"ok"}

\* A model turn whose tool_calls hold the final-report call: parse and return.
ReceiveReport ==
    /\ pc = "awaiting"
    /\ \E shapes \in ModelTurns :
          LET toolCalls == WithIds(shapes, nextId)
              at == FindReviewCall(toolCalls)
              parsed == parseBugsFromToolCall(toolCalls[at].payload)
          IN  /\ Len(shapes) > 0
              /\ at # 0
              /\ batch' = toolCalls
              /\ emitted' = emitted \o GroundingIds(toolCalls)
              /\ nextId' = nextId + Len(toolCalls)
              /\ result' = parsed
              /\ pc' = IF parsed.kind = "bugs" THEN "done" ELSE "failed"
    /\ UNCHANGED <<maxToolCalls, toolCallCount, messages, idx, requests, executed>>

\* A model turn with tool calls, none of them the final report: the assistant
\* message is pushed and the first call is handed to executeToolCall.
ReceiveToolCalls ==
    /\ pc = "awaiting"
    /\ \E shapes \in ModelTurns :
          LET toolCalls == WithIds(shapes, nextId)
          IN  /\ Len(shapes) > 0
              /\ FindReviewCall(toolCalls) = 0
              /\ batch' = toolCalls
              /\ emitted' = emitted \o Ids(toolCalls)
              /\ nextId' = nextId + Len(toolCalls)
              /\ messages' = Append(messages, AssistantMsg(Ids(toolCalls)))
              /\ executed' = Append(executed, toolCalls[1].id)
    /\ idx' = 1
    /\ pc' = "executing"
    /\ UNCHANGED <<maxToolCalls, toolCallCount, requests, result>>

\* A model turn with content and no tool call: the fallback extraction.
ReceiveContent ==
    /\ pc = "awaiting"
    /\ \E payload \in DriverPayloads :
          LET fallback == FallbackFromContent(payload)
          IN  /\ result' = fallback
              /\ pc' = IF fallback.kind = "bugs" THEN "done" ELSE "failed"
    /\ batch' = <<>>
    /\ UNCHANGED <<maxToolCalls, toolCallCount, messages, idx, requests, executed,
                   emitted, nextId>>

\* A model turn with neither tool calls nor content.
ReceiveNothing ==
    /\ pc = "awaiting"
    /\ result' = Threw("no-tool-calls-no-content")
    /\ pc' = "failed"
    /\ batch' = <<>>
    /\ UNCHANGED <<maxToolCalls, toolCallCount, messages, idx, requests, executed,
                   emitted, nextId>>

\* The awaited executeToolCall rejects: the exception leaves the driver.
ToolRejects ==
    /\ pc = "executing"
    /\ \E io \in ToolIo :
          executeToolCall(batch[idx], DEFAULT_TOOLS_CONFIG, io).kind = "rejected"
    /\ result' = Threw("tool-exception")
    /\ pc' = "failed"
    /\ UNCHANGED <<maxToolCalls, toolCallCount, messages, batch, idx, requests,
                   executed, emitted, nextId>>

\* The tool messages and the nudge pushed once the batch is left, then `continue`.
LeaveBatch(msgs, count) ==
    /\ messages' = IF NudgeDue(count, maxToolCalls)
                   THEN Append(msgs, NudgeMsg(count))
                   ELSE msgs
    /\ LoopHead(count)
    /\ UNCHANGED <<batch, idx, executed>>

\* The awaited executeToolCall resolves: its result is pushed as a role=tool
\* message and counted; then the next call of the batch is executed, or the
\* batch is left (at its end, or cut short when the budget is hit).
ToolResolves ==
    /\ pc = "executing"
    /\ \E io \in ToolIo :
          LET settled == executeToolCall(batch[idx], DEFAULT_TOOLS_CONFIG, io)
              msgs == Append(messages, ToolMsg(batch[idx].id, settled.success))
              count == toolCallCount + 1
          IN  /\ settled.kind = "resolved"
              /\ toolCallCount' = count
              /\ IF BreakMidBatch(count, maxToolCalls) \/ idx = Len(batch)
                 THEN LeaveBatch(msgs, count)
                 ELSE /\ messages' = msgs
                      /\ idx' = idx + 1
                      /\ executed' = Append(executed, batch[idx + 1].id)
                      /\ UNCHANGED <<batch, pc, requests, result>>
    /\ UNCHANGED <<maxToolCalls, emitted, nextId>>

\* -------------------------------------------------------- fetchWithRetry

\* An error caught in fetchWithRetry: its class and what its message holds.
Err(class, msg) == [class |-> class, msg |-> msg]

NoError == Err("none", "")

\* new DOMException('Aborted', 'AbortError'), and fetch's own abort error
AbortError == Err("AbortError", "aborted")

RetryableMessages ==
    {"econnrefused", "econnreset", "etimedout", "enotfound", "fetch failed",
     "network", "socket hang up", "epipe", "unable to connect", "aborted",
     "timeout"}

\* A classifier that retries no abort at all, the internal timeout included.
isRetryableError_NoTimeoutRetry(error, wasCallerAbort) ==
    IF error.class = "TypeError" THEN TRUE
    ELSE IF error.class = "AbortError" THEN FALSE
    ELSE error.msg \in RetryableMessages

isRetryableError(error, wasCallerAbort) ==
    IF error.class = "TypeError" THEN TRUE
    ELSE IF error.class = "AbortError" THEN ~wasCallerAbort
    ELSE error.msg \in RetryableMessages

\* A status list that takes every 5xx answer for a passing failure.
isRetryableStatus_With500(status) == status \in {429, 500, 502, 503, 504, 408}

\* A status list without 503.
isRetryableStatus_No503(status) == status \in {429, 502, 504, 408}

isRetryableStatus(status) == status \in {429, 502, 503, 504, 408}

\* The errors fetch rejects with when nothing aborted it.
FetchErrors ==
    { Err("TypeError", "fetch failed"), Err("Error", "econnrefused"),
      Err("Error", "certificate has expired") }

\* The statuses the endpoint answers with.
Statuses == {200, 400, 500, 408, 429, 502, 503, 504}

Answered(status) == [kind |-> "status", status |-> status, error |-> NoError]

Failed(error) == [kind |-> "error", status |-> 0, error |-> error]

IdleFetch ==
    /\ fMaxRetries = 0
    /\ fPc = "idle"
    /\ attempt = 0
    /\ callerAborted = FALSE
    /\ signalAborted = FALSE
    /\ listening = FALSE
    /\ ctrlAborted = FALSE
    /\ lastError = NoError
    /\ fLog = <<>>
    /\ fResult = 0

\* The catch clause: lastError is set; break, or wait out the backoff.
\* (The finally clause runs at the break and removes the listener.)
Catch(err, aborted, at) ==
    /\ lastError' = err
    /\ fPc' = IF ~isRetryableError(err, aborted) \/ at >= fMaxRetries
              THEN "thrown"
              ELSE "backoff"
    /\ listening' = (isRetryableError(err, aborted) /\ at < fMaxRetries)

\* A loop turn that does not look at the caller's signal before fetching.
Iterate_NoSignalCheck(at) ==
    /\ attempt' = at
    /\ ctrlAborted' = FALSE
    /\ callerAborted' = FALSE
    /\ UNCHANGED lastError
    /\ IF at > fMaxRetries
       THEN fPc' = "thrown" /\ listening' = FALSE
       ELSE fPc' = "fetching" /\ listening' = TRUE

\* One turn of the for loop up to its first await: the loop test, the check of
\* the caller's signal, the listener, and the start of fetch.
Iterate(at) ==
    /\ attempt' = at
    /\ ctrlAborted' = FALSE
    /\ IF at > fMaxRetries
       THEN /\ fPc' = "thrown"
            /\ callerAborted' = FALSE
            /\ listening' = FALSE
            /\ UNCHANGED lastError
       ELSE IF signalAborted
       THEN /\ callerAborted' = TRUE
            /\ Catch(AbortError, TRUE, at)
       ELSE /\ callerAborted' = FALSE
            /\ listening' = TRUE
            /\ fPc' = "fetching"
            /\ UNCHANGED lastError

\* fetchWithRetry is called.
StartFetch ==
    /\ fPc = "start"
    /\ Iterate(0)
    /\ UNCHANGED <<fMaxRetries, signalAborted, fLog, fResult>>

\* The caller aborts its signal; a registered onCallerAbort runs.
CallerAborts ==
    /\ fPc \in {"start", "fetching", "draining", "backoff"}
    /\ ~signalAborted
    /\ signalAborted' = TRUE
    /\ callerAborted' = (callerAborted \/ listening)
    /\ ctrlAborted' = (ctrlAborted \/ listening)
    /\ UNCHANGED <<fMaxRetries, fPc, attempt, listening, lastError, fLog, fResult>>

\* The per-attempt timer fires: controller.abort().
TimeoutFires ==
    /\ fPc \in {"fetching", "draining"}
    /\ ~ctrlAborted
    /\ ctrlAborted' = TRUE
    /\ UNCHANGED <<fMaxRetries, fPc, attempt, callerAborted, signalAborted,
                   listening, lastError, fLog, fResult>>

\* fetch resolves with a response.
FetchResponds ==
    /\ fPc = "fetching"
    /\ ~ctrlAborted
    /\ \E status \in Statuses :
          /\ fLog' = Append(fLog, Answered(status))
          /\ IF isRetryableStatus(status) /\ attempt < fMaxRetries
             THEN /\ fPc' = "draining"
                  /\ UNCHANGED <<fResult, listening>>
             ELSE /\ fPc' = "returned"
                  /\ fResult' = status
                  /\ listening' = FALSE
    /\ UNCHANGED <<fMaxRetries, attempt, callerAborted, signalAborted,
                   ctrlAborted, lastError>>

\* fetch rejects: aborted through the controller, or failed by itself.
FetchRejects ==
    /\ fPc = "fetching"
    /\ \E err \in (IF ctrlAborted THEN {AbortError} ELSE FetchErrors) :
          /\ fLog' = Append(fLog, Failed(err))
          /\ Catch(err, callerAborted, attempt)
    /\ UNCHANGED <<fMaxRetries, attempt, callerAborted, signalAborted,
                   ctrlAborted, fResult>>

\* response.text() settles (a failure is ignored) and the backoff wait starts.
DrainEnds ==
    /\ fPc = "draining"
    /\ fPc' = "backoff"
    /\ UNCHANGED <<fMaxRetries, attempt, callerAborted, signalAborted, listening,
                   ctrlAborted, lastError, fLog, fResult>>

\* The backoff wait ends: the finally clause runs and the loop goes round.
BackoffEnds ==
    /\ fPc = "backoff"
    /\ Iterate(attempt + 1)
    /\ UNCHANGED <<fMaxRetries, signalAborted, fLog, fResult>>

\* `Failed to connect to AI proxy after ${maxRetries + 1} attempts: ...`
AttemptsStated == fMaxRetries + 1

\* The hint of the error thrown after the loop, from lastError's message.
hint(error) ==
    IF error.msg = "econnrefused" THEN "proxy-not-running"
    ELSE IF error.msg = "aborted" THEN "overloaded"
    ELSE ""

\* HTTP attempts started so far.
Started == Len(fLog) + (IF fPc = "fetching" THEN 1 ELSE 0)

\* ------------------------------------------------------------ file paths

(* A path string is its segments between slashes, and whether it starts     *)
(* with a slash.  The repository root (process.cwd()) is /repo.             *)
Segments ==
    {"..", "repo", "src", ".aws", "credentials", ".env", ".env.local",
     ".env.example", "id_rsa", "id_dsa", "server.pem", "cert.PEM",
     "logo.png", "main.ts"}

PathOf(abs, segs) == [abs |-> abs, segs |-> segs]

Paths == { PathOf(abs, segs) : abs \in BOOLEAN, segs \in SeqsUpTo(Segments, MaxPathLen) }

\* getRepoRoot()
getRepoRoot == <<"repo">>

\* The empty string, which JavaScript takes for false.
IsEmptyPath(p) == ~p.abs /\ p.segs = <<>>

\* path.basename
basename(p) == IF p.segs = <<>> THEN "" ELSE p.segs[Len(p.segs)]

\* path.extname of a base name: from its last dot, a leading dot apart.
extname(base) ==
    CASE base = ".env.local"   -> ".local"
      [] base = ".env.example" -> ".example"
      [] base = "server.pem"   -> ".pem"
      [] base = "cert.PEM"     -> ".PEM"
      [] base = "logo.png"     -> ".png"
      [] base = "main.ts"      -> ".ts"
      [] base = "util.ts"      -> ".ts"
      [] base = "x.js"         -> ".js"
      [] base = "README.md"    -> ".md"
      [] OTHER                 -> ""

\* String.prototype.toLowerCase on the extensions above.
toLowerCase(str) == IF str = ".PEM" THEN ".pem" ELSE str

\* path.resolve's normalisation: a '..' drops the segment before it and stays
\* at the root when there is none.
RECURSIVE NormalizeFrom(_, _)
NormalizeFrom(stack, rest) ==
    IF rest = <<>> THEN stack
    ELSE IF Head(rest) = ".."
         THEN NormalizeFrom(IF stack = <<>> THEN <<>>
                            ELSE SubSeq(stack, 1, Len(stack) - 1), Tail(rest))
         ELSE NormalizeFrom(Append(stack, Head(rest)), Tail(rest))

\* path.resolve(repoRoot, filePath): the segments of an absolute path.
resolve(p) ==
    NormalizeFrom(<<>>, IF p.abs THEN p.segs ELSE getRepoRoot \o p.segs)

\* The length of the longest common prefix of two segment lists.
RECURSIVE CommonPrefix(_, _)
CommonPrefix(a, b) ==
    IF a = <<>> \/ b = <<>> THEN 0
    ELSE IF Head(a) # Head(b) THEN 0
    ELSE 1 + CommonPrefix(Tail(a), Tail(b))

\* path.relative(from, to) for two absolute paths.
relative(from, to) ==
    LET c == CommonPrefix(from, to)
    IN [i \in 1..(Len(from) - c) |-> ".."] \o SubSeq(to, c + 1, Len(to))

\* tools.ts isPathWithinRepo; a relative path is never absolute on POSIX.
isPathWithinRepo(p) ==
    LET relativePath == relative(getRepoRoot, resolve(p))
    IN ~(relativePath # <<>> /\ relativePath[1] = "..")

\* normalized.includes('/.aws/')
IncludesAwsDir(p) ==
    \E i \in 1..Len(p.segs) :
        p.segs[i] = ".aws" /\ i < Len(p.segs) /\ (i > 1 \/ p.abs)

\* base.startsWith('.env.')
StartsWithEnvDot(base) == base \in {".env.local", ".env.example"}

secretBasenames ==
    {".npmrc", ".pypirc", ".netrc", ".git-credentials", "id_rsa", "id_ed25519",
     "id_dsa", "id_ecdsa"}

secretExts == {".pem", ".key", ".p12", ".pfx", ".jks", ".kdbx"}

\* A classifier that does not look at the extension.
isPotentialSecretPath_NoExts(p) ==
    LET base == basename(p)
    IN \/ base = ".env"
       \/ StartsWithEnvDot(base) /\ base # ".env.example"
       \/ base \in secretBasenames
       \/ IncludesAwsDir(p) /\ base = "credentials"

\* tools.ts isPotentialSecretPath
isPotentialSecretPath(p) ==
    LET base == basename(p)
    IN \/ base = ".env"
       \/ StartsWithEnvDot(base) /\ base # ".env.example"
       \/ base \in secretBasenames
       \/ toLowerCase(extname(base)) \in secretExts
       \/ IncludesAwsDir(p) /\ base = "credentials"

binaryExtensions ==
    {".png", ".jpg", ".jpeg", ".gif", ".bmp", ".ico", ".webp", ".svg", ".pdf",
     ".doc", ".docx", ".xls", ".xlsx", ".ppt", ".pptx", ".zip", ".tar", ".gz",
     ".rar", ".7z", ".exe", ".dll", ".so", ".dylib", ".wasm", ".bin", ".dat",
     ".mp3", ".mp4", ".avi", ".mov", ".wav", ".ttf", ".otf", ".woff", ".woff2",
     ".eot"}

\* tools.ts isBinaryFile
isBinaryFile(p) == toLowerCase(extname(basename(p))) \in binaryExtensions

\* ------------------------------------------------------ sandbox operations

NoPath == PathOf(FALSE, <<>>)

\* A call of one sandbox operation with string arguments.
SandboxCall(op, path, text, globs) ==
    [op |-> op, path |-> path, text |-> text, globs |-> globs]

\* A ToolResult: success, the error text, the exit code of run_check, the
\* paths of search_repo's results.
Result(success, error) ==
    [success |-> success, error |-> error, hasExit |-> FALSE, exitCode |-> 0,
     paths |-> {}]

NoResult == Result(FALSE, "pending")

IdleSandbox ==
    /\ sCall = "idle"
    /\ sPc = "idle"
    /\ sFx = <<>>
    /\ sResult = NoResult

\* --------------------------------------------------------------- readFile

NoRefusal == ""

\* A readFile that looks for secrets before it looks at the containment.
readFileRefusal_SecretFirst(p) ==
    IF IsEmptyPath(p) THEN "File path is required"
    ELSE IF isPotentialSecretPath(p) THEN "Refusing to read potential secret file"
    ELSE IF ~isPathWithinRepo(p) THEN "File path must be within the repository"
    ELSE IF isBinaryFile(PathOf(TRUE, resolve(p))) THEN "Cannot read binary files"
    ELSE NoRefusal

\* readFile, the checks it makes on a path string before its try block: the
\* error it returns, or none.
readFileRefusal(p) ==
    IF IsEmptyPath(p) THEN "File path is required"
    ELSE IF ~isPathWithinRepo(p) THEN "File path must be within the repository"
    ELSE IF isPotentialSecretPath(p) THEN "Refusing to read potential secret file"
    ELSE IF isBinaryFile(PathOf(TRUE, resolve(p))) THEN "Cannot read binary files"
    ELSE NoRefusal

\* readFile is called: a refused path returns at once, any other goes on to
\* fs.promises.stat.
ReadFileEnters ==
    /\ sPc = "start"
    /\ sCall.op = "readFile"
    /\ IF readFileRefusal(sCall.path) # NoRefusal
       THEN /\ sResult' = Result(FALSE, readFileRefusal(sCall.path))
            /\ sPc' = "done"
            /\ UNCHANGED sFx
       ELSE /\ sPc' = "stat"
            /\ sFx' = Append(sFx, "fs.stat")
            /\ UNCHANGED sResult
    /\ UNCHANGED sCall

\* fs.promises.stat settles; a regular file goes on to fs.promises.readFile.
StatSettles ==
    /\ sPc = "stat"
    /\ \E outcome \in {"ENOENT", "EACCES", "directory", "file"} :
          IF outcome = "file"
          THEN /\ sPc' = "read"
               /\ sFx' = Append(sFx, "fs.readFile")
               /\ UNCHANGED sResult
          ELSE /\ sPc' = "done"
               /\ sResult' = Result(FALSE,
                     CASE outcome = "ENOENT" -> "File not found"
                       [] outcome = "EACCES" -> "Failed to read file"
                       [] OTHER -> "Path is not a file")
               /\ UNCHANGED sFx
    /\ UNCHANGED sCall

\* fs.promises.readFile settles.
ReadSettles ==
    /\ sPc = "read"
    /\ \E outcome \in {"ok", "EACCES"} :
          sResult' = IF outcome = "ok" THEN Result(TRUE, "")
                     ELSE Result(FALSE, "Failed to read file")
    /\ sPc' = "done"
    /\ UNCHANGED <<sCall, sFx>>

\* -------------------------------------------------------------- searchRepo

(* A glob handed to ripgrep with --glob: a name ('id_rsa'), an extension    *)
(* ('*.pem'), a prefix ('.env.*') or everything ('*'); neg is the leading   *)
(* '!'.  A glob without a slash is matched against the name of every        *)
(* directory and file of a path, letter case included.                      *)
Glob(kind, val, neg) == [kind |-> kind, val |-> val, neg |-> neg]

GlobMatches(glob, name) ==
    CASE glob.kind = "name"   -> name = glob.val
      [] glob.kind = "ext"    -> extname(name) = glob.val
      [] glob.kind = "prefix" -> glob.val = ".env." /\ StartsWithEnvDot(name)
      [] OTHER                -> TRUE

\* tools.ts DEFAULT_IGNORES
DEFAULT_IGNORES ==
    << Glob("name", "node_modules", FALSE), Glob("name", "dist", FALSE),
       Glob("name", "build", FALSE), Glob("name", ".git", FALSE),
       Glob("ext", ".lock", FALSE), Glob("name", "package-lock.json", FALSE),
       Glob("name", "bun.lockb", FALSE), Glob("name", ".next", FALSE),
       Glob("name", "coverage", FALSE), Glob("name", ".cache", FALSE),
       Glob("name", ".env", FALSE), Glob("prefix", ".env.", FALSE),
       Glob("name", ".npmrc", FALSE), Glob("name", ".pypirc", FALSE),
       Glob("name", ".netrc", FALSE), Glob("name", ".git-credentials", FALSE),
       Glob("name", "id_rsa", FALSE), Glob("name", "id_ed25519", FALSE),
       Glob("ext", ".pem", FALSE), Glob("ext", ".key", FALSE),
       Glob("ext", ".p12", FALSE), Glob("ext", ".pfx", FALSE),
       Glob("ext", ".jks", FALSE), Glob("ext", ".kdbx", FALSE) >>

\* searchRepo's --glob arguments: each default ignore negated, then the
\* caller's globs as they are.
RgGlobs(globs) ==
    [i \in 1..Len(DEFAULT_IGNORES) |->
        Glob(DEFAULT_IGNORES[i].kind, DEFAULT_IGNORES[i].val, TRUE)] \o globs

\* ripgrep: of the globs that match a name the last one decides; a file that
\* matches none is left out when some glob is a whitelist.
RECURSIVE LastMatch(_, _)
LastMatch(globs, name) ==
    IF globs = <<>> THEN 0
    ELSE LET n == Len(globs)
         IN IF GlobMatches(globs[n], name) THEN n
            ELSE LastMatch(SubSeq(globs, 1, n - 1), name)

GlobVerdict(globs, name, isDir) ==
    LET n == LastMatch(globs, name)
    IN IF n > 0 THEN (IF globs[n].neg THEN "ignore" ELSE "whitelist")
       ELSE IF ~isDir /\ (\E i \in 1..Len(globs) : ~globs[i].neg) THEN "ignore"
       ELSE "none"

\* ripgrep skips hidden files and directories that no glob whitelists.
IsHidden(name) == name \in {".env", ".env.local", ".env.example", ".aws"}

RgSearches(file, globs) ==
    \A i \in 1..Len(file) :
        LET verdict == GlobVerdict(globs, file[i], i < Len(file))
        IN verdict # "ignore" /\ (IsHidden(file[i]) => verdict = "whitelist")

\* The files of the repository (relative to its root) that hold a match.
RepoFiles ==
    { <<"src", "main.ts">>, <<"logo.png">>, <<".env">>, <<"src", ".env.local">>,
      <<"server.pem">>, <<"cert.PEM">>, <<"id_rsa">>, <<"id_dsa">>,
      <<".aws", "credentials">> }

\* The results searchRepo collects from the matches rg reports: binary files
\* are skipped, nothing else is.
SearchResults(reported) == { f \in reported : ~isBinaryFile(PathOf(FALSE, f)) }

WithPaths(paths) == [Result(TRUE, "") EXCEPT !.paths = paths]

\* searchRepo is called with a string query: an empty one is refused, any
\* other spawns rg.
SearchEnters ==
    /\ sPc = "start"
    /\ sCall.op = "searchRepo"
    /\ IF sCall.text = ""
       THEN /\ sResult' = Result(FALSE, "Query cannot be empty")
            /\ sPc' = "done"
            /\ UNCHANGED sFx
       ELSE /\ sPc' = "searching"
            /\ sFx' = Append(sFx, "spawn rg")
            /\ UNCHANGED sResult
    /\ UNCHANGED sCall

\* The files rg searches for this call.
Searched(globs) == { f \in RepoFiles : RgSearches(f, RgGlobs(globs)) }

\* The matches whose lines have reached the data handler when the call
\* settles: all of them when rg exits normally (code 0 or 1, every chunk
\* arrives before 'close'), those printed so far when rg exits with an error
\* code or the timeout fires first, none when rg could not be started.
ReportedBy(outcome, globs) ==
    CASE outcome = "close 0" -> { Searched(globs) }
      [] outcome = "error"   -> { {} }
      [] OTHER               -> SUBSET Searched(globs)

\* What ends the search, as a process event: the exit code seen by the
\* 'close' handler, the 'error' event, or the kill sent by the timeout.
SearchEvent(outcome) ==
    CASE outcome = "close 0" -> "rg exit 0"
      [] outcome = "close 2" -> "rg exit 2"
      [] outcome = "error"   -> "rg error"
      [] OTHER               -> "kill rg"

\* rg closes, fails to start, or the timeout fires.
SearchSettles ==
    /\ sPc = "searching"
    /\ \E outcome \in {"close 0", "close 2", "timeout", "error"} :
          \E reported \in ReportedBy(outcome, sCall.globs) :
             LET results == SearchResults(reported)
             IN /\ sResult' =
                     CASE outcome = "error" -> Result(FALSE, "Failed to run ripgrep")
                       [] outcome = "close 2" /\ results = {} ->
                              Result(FALSE, "ripgrep exited")
                       [] outcome = "timeout" /\ results = {} ->
                              [WithPaths({}) EXCEPT !.error = "Search timed out"]
                       [] OTHER -> WithPaths(results)
                /\ sFx' = Append(sFx, SearchEvent(outcome))
    /\ sPc' = "done"
    /\ UNCHANGED sCall

\* The globs the model supplies.
ModelGlobs ==
    { Glob("ext", ".ts", FALSE), Glob("ext", ".pem", FALSE),
      Glob("ext", ".ts", TRUE), Glob("any", "*", FALSE) }

SearchCalls ==
    { SandboxCall("searchRepo", NoPath, query, globs) :
        query \in {"", "key"}, globs \in SeqsUpTo(ModelGlobs, MaxGlobs) }

\* --------------------------------------------------------------- git tools

\* The strings of the model that hold one of ; & | ` $ ( ) { } [ ] < > \ ! * ? " '
\* or a line break.
MetacharStrings == {"a;b", "fix|feat", "HEAD;ls", "$(id)", "*"}

\* tools.ts containsShellMetachars, on a plain string
containsShellMetachars(str) == str \in MetacharStrings

\* containsShellMetachars on a path: on any of its segments, the slash being
\* no metacharacter.
PathHasMetachars(p) == \E i \in 1..Len(p.segs) : containsShellMetachars(p.segs[i])

\* The revisions of the model that match gitShow's validRevPattern: a hex
\* hash of 4 to 40 characters, HEAD with an optional ~N or ^N, or a branch
\* name that starts with a letter and holds letters, digits, _ - /.
validRevPattern(rev) ==
    rev \in {"abc1234", "1234", "HEAD", "HEAD~2", "HEAD^1", "main", "feature/x"}

\* Git tools that skip the metacharacter tests.
gitRefusal_NoMetachars(call) ==
    CASE call.op = "gitBlame" ->
            IF IsEmptyPath(call.path) THEN "File path is required"
            ELSE IF ~isPathWithinRepo(call.path)
                 THEN "File path must be within the repository"
            ELSE NoRefusal
      [] call.op = "gitLog" ->
            IF ~IsEmptyPath(call.path) /\ ~isPathWithinRepo(call.path)
            THEN "File path must be within the repository"
            ELSE NoRefusal
      [] OTHER ->
            IF call.text = "" \/ ~validRevPattern(call.text)
            THEN "Invalid revision format"
            ELSE NoRefusal

\* gitBlame, gitLog, gitShow: the checks made on string arguments before the
\* try block, and the error returned, or none.
gitRefusal(call) ==
    CASE call.op = "gitBlame" ->
            IF IsEmptyPath(call.path) THEN "File path is required"
            ELSE IF ~isPathWithinRepo(call.path)
                 THEN "File path must be within the repository"
            ELSE IF PathHasMetachars(call.path)
                 THEN "Invalid characters in file path"
            ELSE NoRefusal
      [] call.op = "gitLog" ->
            IF ~IsEmptyPath(call.path) /\ ~isPathWithinRepo(call.path)
            THEN "File path must be within the repository"
            ELSE IF ~IsEmptyPath(call.path) /\ PathHasMetachars(call.path)
                 THEN "Invalid characters in file path"
            ELSE IF call.text # "" /\ containsShellMetachars(call.text)
                 THEN "Invalid characters in grep pattern"
            ELSE NoRefusal
      [] OTHER ->
            IF call.text = "" \/ ~validRevPattern(call.text)
            THEN "Invalid revision format"
            ELSE IF containsShellMetachars(call.text)
                 THEN "Invalid characters in revision"
            ELSE NoRefusal

GitOps == {"gitBlame", "gitLog", "gitShow"}

\* A git tool is called: a refused argument returns at once, anything else
\* goes on to execGitCommand, which spawns git.
GitEnters ==
    /\ sPc = "start"
    /\ sCall.op \in GitOps
    /\ IF gitRefusal(sCall) # NoRefusal
       THEN /\ sResult' = Result(FALSE, gitRefusal(sCall))
            /\ sPc' = "done"
            /\ UNCHANGED sFx
       ELSE /\ sPc' = "git"
            /\ sFx' = Append(sFx, "spawn git")
            /\ UNCHANGED sResult
    /\ UNCHANGED sCall

\* execGitCommand settles: a rejection is caught and returned as a failure;
\* gitShow runs a second command after its first.
GitSettles ==
    /\ sPc = "git"
    /\ \E ok \in BOOLEAN :
          IF ok /\ sCall.op = "gitShow" /\ Len(sFx) = 1
          THEN /\ sFx' = Append(sFx, "spawn git")
               /\ UNCHANGED <<sPc, sResult>>
          ELSE /\ sResult' = IF ok THEN Result(TRUE, "")
                             ELSE Result(FALSE, "git failed")
               /\ sPc' = "done"
               /\ UNCHANGED sFx
    /\ UNCHANGED sCall

GitSegments == {"..", "repo", "src", "main.ts", "a;b"}

GitPaths ==
    { PathOf(abs, segs) : abs \in BOOLEAN, segs \in SeqsUpTo(GitSegments, 2) }

Revisions ==
    {"", "abc1234", "1234", "123", "HEAD", "HEAD~2", "HEAD^1", "HEAD~", "main",
     "feature/x", "v1.0", "-p", "HEAD;ls", "$(id)", "*"}

GitCalls ==
    { SandboxCall("gitBlame", p, "", <<>>) : p \in GitPaths }
      \cup { SandboxCall("gitLog", p, grep, <<>>) :
                p \in GitPaths, grep \in {"", "fix", "fix|feat"} }
      \cup { SandboxCall("gitShow", NoPath, rev, <<>>) : rev \in Revisions }

\* ---------------------------------------------------------------- runCheck

\* The keys of tools.ts CHECK_COMMANDS
CHECK_COMMANDS == {"typecheck", "test", "lint", "build"}

WithExit(code) == [Result(TRUE, "") EXCEPT !.hasExit = TRUE, !.exitCode = code]

\* runCheck is called: a kind without a command is refused, any other spawns
\* its command and arms the timeout.
CheckEnters ==
    /\ sPc = "start"
    /\ sCall.op = "runCheck"
    /\ IF sCall.text \notin CHECK_COMMANDS
       THEN /\ sResult' = Result(FALSE, "Unknown check kind")
            /\ sPc' = "done"
            /\ UNCHANGED sFx
       ELSE /\ sPc' = "running"
            /\ sFx' = Append(sFx, "spawn check")
            /\ UNCHANGED sResult
    /\ UNCHANGED sCall

\* The child closes before the timeout: exitCode is code ?? 0, the code being
\* null when a signal ended the child.  How the child ended is kept in sFx.
CheckCloses ==
    /\ sPc = "running"
    /\ \E code \in {Some(0), Some(1), Some(2), Undefined} :
          /\ sResult' = WithExit(Coalesce(code, Some(0)).v)
          /\ sFx' = Append(sFx, CASE code = Some(0) -> "check exit 0"
                                  [] code = Some(1) -> "check exit 1"
                                  [] code = Some(2) -> "check exit 2"
                                  [] OTHER          -> "check signal")
    /\ sPc' = "done"
    /\ UNCHANGED sCall

\* The child fails to start: the 'error' handler resolves the promise.
CheckErrors ==
    /\ sPc = "running"
    /\ sResult' = Result(FALSE, "Failed to run")
    /\ sPc' = "done"
    /\ UNCHANGED <<sCall, sFx>>

\* The timeout fires first: the child is sent SIGTERM.
CheckTimesOut ==
    /\ sPc = "running"
    /\ sFx' = Append(sFx, "kill SIGTERM")
    /\ sResult' = [WithExit(0 - 1) EXCEPT !.error = "Command timed out"]
    /\ sPc' = "done"
    /\ UNCHANGED sCall

CheckCalls ==
    { SandboxCall("runCheck", NoPath, kind, <<>>) :
        kind \in CHECK_COMMANDS \cup {"deploy"} }

\* The calls SpecSandbox starts from.
ReadFileCalls == { SandboxCall("readFile", p, "", <<>>) : p \in Paths }

SandboxCalls == ReadFileCalls \cup SearchCalls \cup GitCalls \cup CheckCalls

\* ------------------------------------------- reviewCodebase: file mapping

\* core/utils.ts SECRET_BASENAMES
SECRET_BASENAMES ==
    {".env", ".npmrc", ".pypirc", ".netrc", ".git-credentials", "id_rsa",
     "id_ed25519", "id_dsa", "id_ecdsa"}

\* core/utils.ts SECRET_EXTENSIONS
SECRET_EXTENSIONS == {".pem", ".key", ".p12", ".pfx", ".jks", ".kdbx"}

\* A classifier that knows no secret base name and no .env.* file.
utils_isPotentialSecretPath_ExtsOnly(p) ==
    \/ toLowerCase(extname(basename(p))) \in SECRET_EXTENSIONS
    \/ IncludesAwsDir(p) /\ basename(p) = "credentials"

\* core/utils.ts isPotentialSecretPath, the one ai-reviewer.ts imports
utils_isPotentialSecretPath(p) ==
    LET base == basename(p)
    IN \/ base \in SECRET_BASENAMES
       \/ StartsWithEnvDot(base) /\ base # ".env.example"
       \/ toLowerCase(extname(base)) \in SECRET_EXTENSIONS
       \/ IncludesAwsDir(p) /\ base = "credentials"

\* The paths an index may list, relative to the repository root, in the
\* order localeCompare gives them.
Collation ==
    << <<".env">>, <<".env.example">>, <<"logo.png">>,
       <<"node_modules", "x.js">>, <<"README.md">>, <<"server.pem">>,
       <<"src", ".env.local">>, <<"src", "main.ts">> >>

IndexedPaths == { Collation[i] : i \in 1..Len(Collation) }

\* git ls-files lists paths in byte order.
Listing ==
    << <<".env">>, <<".env.example">>, <<"README.md">>, <<"logo.png">>,
       <<"node_modules", "x.js">>, <<"server.pem">>, <<"src", ".env.local">>,
       <<"src", "main.ts">> >>

RankIn(order, path) == CHOOSE i \in 1..Len(order) : order[i] = path

\* a.localeCompare(b) < 0
localeCompare(a, b) == RankIn(Collation, a) < RankIn(Collation, b)

\* pickFilesForCodebaseMap's always set
always(entrySet) ==
    entrySet \cup
      { <<"package.json">>, <<"tsconfig.json">>, <<"README.md">>, <<"readme.md">>,
        <<"src", "index.ts">>, <<"src", "main.ts">>, <<"index.ts">>, <<"index.js">> }

\* always.has(p) || always.has(base)
IsAlways(path, entrySet) ==
    path \in always(entrySet) \/ <<path[Len(path)]>> \in always(entrySet)

\* p.startsWith(dir + '/')
StartsWithDir(path, dir) == Len(path) > 1 /\ path[1] = dir

\* pickFilesForCodebaseMap's score; of its word tests the indexed paths meet
\* only \b(index|main|app|server|cli|entry|router)\b (main.ts, server.pem)
\* and \b(api|http|client|server|middleware)\b (server.pem), and no indexed
\* path is minified, generated, vendored or a .d.ts file.
score(path, entrySet) ==
    LET base == path[Len(path)]
        ext == toLowerCase(extname(base))
    IN (IF IsAlways(path, entrySet) THEN 10000 ELSE 0)
       + (IF path \in entrySet THEN 8000 ELSE 0)
       + (IF StartsWithDir(path, "src") THEN 1200 ELSE 0)
       + (IF StartsWithDir(path, "app") THEN 900 ELSE 0)
       + (IF StartsWithDir(path, "lib") THEN 850 ELSE 0)
       + (IF StartsWithDir(path, "packages") THEN 700 ELSE 0)
       + (IF StartsWithDir(path, "server") \/ StartsWithDir(path, "backend")
          THEN 650 ELSE 0)
       + (IF base \in {"main.ts", "server.pem"} THEN 250 ELSE 0)
       + (IF base = "server.pem" THEN 180 ELSE 0)
       + (IF ext \in {".ts", ".tsx", ".js", ".jsx"} THEN 900
          ELSE IF ext \in {".py", ".go", ".rs", ".java", ".kt", ".cs"} THEN 800
          ELSE IF ext \in {".json", ".yaml", ".yml", ".toml"} THEN 350
          ELSE IF ext \in {".md", ".txt"} THEN 200
          ELSE 0)

\* The sort's comparator: score(b) - score(a) || a.localeCompare(b)
SortsBefore(a, b, entrySet) ==
    \/ score(a, entrySet) > score(b, entrySet)
    \/ score(a, entrySet) = score(b, entrySet) /\ localeCompare(a, b)

RECURSIVE Sorted(_, _)
Sorted(S, entrySet) ==
    IF S = {} THEN <<>>
    ELSE LET first == CHOOSE a \in S :
                         \A b \in S \ {a} : SortsBefore(a, b, entrySet)
         IN <<first>> \o Sorted(S \ {first}, entrySet)

\* p.includes('node_modules/')
InNodeModules(path) == \E i \in 1..(Len(path) - 1) : path[i] = "node_modules"

\* pickFilesForCodebaseMap: the filtered paths ranked, the always files
\* first, the others while there is room, the first maxFiles of that.
pickFilesForCodebaseMap(allPaths, entryPoints, maxFiles) ==
    LET ranked == Sorted({ path \in allPaths :
                             /\ ~InNodeModules(path)
                             /\ ~utils_isPotentialSecretPath(PathOf(FALSE, path)) },
                         entryPoints)
        Key(path) == IsAlways(path, entryPoints)
        Other(path) == ~IsAlways(path, entryPoints)
        keyFiles == SelectSeq(ranked, Key)
        others == SelectSeq(ranked, Other)
        room == IF Len(keyFiles) >= maxFiles THEN 0
                ELSE Min(maxFiles - Len(keyFiles), Len(others))
        picked == keyFiles \o SubSeq(others, 1, room)
    IN SubSeq(picked, 1, Min(maxFiles, Len(picked)))

\* ai-reviewer.ts BINARY_EXTENSIONS, the list of tools.ts isBinaryFile
BINARY_EXTENSIONS == binaryExtensions

Access(op, path) == [op |-> op, path |-> path]

\* buildFileDigest: whether it returns a digest, and the filesystem accesses
\* it makes.  cached: knownStats holds the path; statOk, text: what
\* fs.promises.stat and readTextFileChunk come back with.
buildFileDigest(path, cached, statOk, text) ==
    IF utils_isPotentialSecretPath(PathOf(FALSE, path))
    THEN [digest |-> FALSE, fx |-> {}]
    ELSE IF toLowerCase(extname(path[Len(path)])) \in BINARY_EXTENSIONS
    THEN [digest |-> FALSE, fx |-> {}]
    ELSE IF ~cached /\ ~statOk
    THEN [digest |-> FALSE, fx |-> {Access("stat", path)}]
    ELSE [digest |-> text,
          fx |-> (IF cached THEN {} ELSE {Access("stat", path)})
                    \cup {Access("open", path), Access("read", path)}]

IdleMap ==
    /\ mAll = {}
    /\ mEntry = {}
    /\ mMax = 0
    /\ mPc = "idle"
    /\ mSelected = <<>>
    /\ mIdx = 0
    /\ mFx = {}
    /\ mDigests = <<>>

\* buildCodebaseIndex stats the first maxFiles listed paths; reviewCodebase
\* then picks the files to map.
IndexAndPick ==
    /\ mPc = "start"
    /\ mFx' = { Access("stat", path) :
                  path \in { q \in mAll :
                      Cardinality({ r \in mAll :
                          RankIn(Listing, r) < RankIn(Listing, q) }) < mMax } }
    /\ mSelected' = pickFilesForCodebaseMap(mAll, mEntry, mMax)
    /\ mPc' = IF mSelected' = <<>> THEN "mapped" ELSE "mapping"
    /\ UNCHANGED <<mAll, mEntry, mMax, mIdx, mDigests>>

\* One turn of the mapping loop: buildFileDigest of the next selected path.
DigestNext ==
    /\ mPc = "mapping"
    /\ LET path == mSelected[mIdx + 1]
       IN \E statOk \in BOOLEAN, text \in BOOLEAN :
             LET d == buildFileDigest(path, Access("stat", path) \in mFx,
                                      statOk, text)
             IN /\ mFx' = mFx \cup d.fx
                /\ mDigests' = IF d.digest THEN Append(mDigests, path)
                               ELSE mDigests
    /\ mIdx' = mIdx + 1
    /\ mPc' = IF mIdx + 1 = Len(mSelected) THEN "mapped" ELSE "mapping"
    /\ UNCHANGED <<mAll, mEntry, mMax, mSelected>>

\* buildFileDigest called by itself on any path; mSelected keeps the path.
CallBuildFileDigest ==
    /\ mPc = "start"
    /\ \E path \in IndexedPaths, cached \in BOOLEAN, statOk \in BOOLEAN,
          text \in BOOLEAN :
          LET d == buildFileDigest(path, cached, statOk, text)
          IN /\ mSelected' = <<path>>
             /\ mFx' = d.fx
             /\ mDigests' = IF d.digest THEN <<path>> ELSE <<>>
    /\ mPc' = "returned"
    /\ UNCHANGED <<mAll, mEntry, mMax, mIdx>>

\* ------------------------------------------- reviewCodebase, the pipeline

\* One call of the onProgress callback; progress is the fraction num / den.
Progress(stage, num, den) == [stage |-> stage, num |-> num, den |-> den]

\* Math.max(1, n)
AtLeastOne(n) == IF n < 1 THEN 1 ELSE n

\* A mapping progress whose span runs past the file batches' base of 0.60.
MappingProgress_WideSpan(completed, n) ==
    Progress("mapping", 8 * AtLeastOne(n) + 62 * completed, 100 * AtLeastOne(n))

\* 0.08 + (completed / Math.max(1, selectedPaths.length)) * 0.52
MappingProgress(completed, n) ==
    Progress("mapping", 8 * AtLeastOne(n) + 52 * completed, 100 * AtLeastOne(n))

\* 0.60 + (i / Math.max(1, batches.length)) * 0.02
FileBatchProgress(i, batches) ==
    Progress("mapping", 60 * AtLeastOne(batches) + 2 * i, 100 * AtLeastOne(batches))

\* 0.62 + (i / Math.max(1, folderBlocks.length)) * 0.16
FolderBatchProgress(i, blocks) ==
    Progress("summarizing", 62 * AtLeastOne(blocks) + 16 * i, 100 * AtLeastOne(blocks))

\* A finding of a response.  id "bug" with n stands for `bug-${n}`; the
\* coverage finding carries the three numbers its description states.
Finding(id, n, severity, indexed, mapped, folders) ==
    [id |-> id, n |-> n, severity |-> severity,
     indexed |-> indexed, mapped |-> mapped, folders |-> folders]

\* The findings of the normalizer, with the ids it gives them.
ModelFindings(bugs) ==
    [i \in 1..Len(bugs) |-> Finding("bug", i - 1, bugs[i].severity, 0, 0, 0)]

addCoverageMetaBug(bugs, totalFiles, mappedFiles, folderCount) ==
    LET needsMeta == totalFiles > 0
    IN  IF ~needsMeta THEN bugs
        ELSE Append(bugs, Finding("meta-coverage", 0, "info",
                                  totalFiles, mappedFiles, folderCount))

\* bugs.filter(b => b.severity === severity).length
CountSeverity(bugs, severity) ==
    Cardinality({ i \in 1..Len(bugs) : bugs[i].severity = severity })

Summary(critical, major, minor, info) ==
    [critical |-> critical, major |-> major, minor |-> minor, info |-> info]

summarize(bugs) ==
    Summary(CountSeverity(bugs, "critical"), CountSeverity(bugs, "major"),
            CountSeverity(bugs, "minor"), CountSeverity(bugs, "info"))

\* An AIReviewResponse: the bugs and the summary computed from them.
Response(bugs) == [returned |-> TRUE, bugs |-> bugs, summary |-> summarize(bugs)]

NoResponse == [returned |-> FALSE, bugs |-> <<>>, summary |-> Summary(0, 0, 0, 0)]

\* A response whose summary is taken before the coverage finding is added.
codebaseResponse_SummaryFirst(bugs, totalFiles, mappedFiles, folderCount) ==
    [returned |-> TRUE,
     bugs |-> addCoverageMetaBug(bugs, totalFiles, mappedFiles, folderCount),
     summary |-> summarize(bugs)]

\* The tail of reviewCodebase: the coverage finding is added, then the
\* summary is counted over bugsWithCoverage.
codebaseResponse(bugs, totalFiles, mappedFiles, folderCount) ==
    Response(addCoverageMetaBug(bugs, totalFiles, mappedFiles, folderCount))

\* The ways one callToolOnce can end.
CallOutcomes == {"ok", "transport", "http", "no-tool-call", "bad-json"}

\* A callToolOnce that answers unparsable arguments with an empty result.
callToolOnce_SwallowsBadJson(outcome) == outcome \in {"ok", "bad-json"}

\* callToolOnce returns the parsed arguments, or throws: fetchWithRetry
\* threw, the response was not ok, the expected tool call is missing, or its
\* arguments are not JSON.  TRUE: it returned.
callToolOnce(outcome) == outcome = "ok"

\* A loop that sends the next batch without waiting for the one in flight.
Awaited_NoAwait(inFlight) == TRUE

\* `await callToolOnce(...)` inside the for loops: the loop goes on only when
\* the call in flight has settled.
Awaited(inFlight) == inFlight = 0

\* chunkByCharBudget of `items` non-empty blocks gives between one chunk and
\* one chunk per block.
ChunkCounts(items) == 1..(IF items < MaxChunks THEN items ELSE MaxChunks)

IdlePipeline ==
    /\ pPc = "idle"
    /\ pTotal = 0
    /\ pSelected = 0
    /\ pI = 0
    /\ pDigests = 0
    /\ pBatches = 0
    /\ pFolders = 0
    /\ pInFlight = 0
    /\ pCalls = 0
    /\ pFailures = 0
    /\ pReports = <<>>
    /\ pResult = NoResponse

\* reviewCodebase is entered: the first report is made and buildCodebaseIndex
\* is awaited.
EnterReviewCodebase ==
    /\ pPc' = "indexing"
    /\ pTotal' = 0
    /\ pSelected' = 0
    /\ pI' = 0
    /\ pDigests' = 0
    /\ pBatches' = 0
    /\ pFolders' = 0
    /\ pInFlight' = 0
    /\ pCalls' = 0
    /\ pFailures' = 0
    /\ pReports' = <<Progress("indexing", 2, 100)>>
    /\ pResult' = NoResponse

\* Where reviewCodebase stands once summarizeFolders has returned: the
\* reviewing report is made and the review pass is about to be called.
AfterFolderBatches(reports) ==
    { [pc |-> "prompted", reports |-> Append(reports, Progress("reviewing", 78, 100)),
       batches |-> 0] }

\* ... once mapFileSummaries has returned with `files` file summaries: the
\* summarizing report, then summarizeFolders, which returns at once for no
\* file and otherwise chunks the folders.
AfterFileBatches(reports, files) ==
    LET r == Append(reports, Progress("summarizing", 62, 100))
    IN  IF files = 0 THEN AfterFolderBatches(r)
        ELSE { [pc |-> "folderBatches", reports |-> r, batches |-> b] :
                 b \in ChunkCounts(files) }

\* ... once the digest loop has ended with `digests` digests: mapFileSummaries,
\* which returns at once for no digest and otherwise chunks the digests.
AfterDigests(reports, digests) ==
    IF digests = 0 THEN AfterFileBatches(reports, 0)
    ELSE { [pc |-> "fileBatches", reports |-> reports, batches |-> b] :
             b \in ChunkCounts(digests) }

\* buildCodebaseIndex returns and pickFilesForCodebaseMap selects.
Indexed ==
    /\ pPc = "indexing"
    /\ \E total \in 0..MaxIndexed :
       \E n \in 0..total :
          LET r == Append(pReports, Progress("mapping", 8, 100))
          IN  /\ pTotal' = total
              /\ pSelected' = n
              /\ IF n = 0
                 THEN \E next \in AfterDigests(r, 0) :
                         /\ pPc' = next.pc
                         /\ pReports' = next.reports
                         /\ pBatches' = next.batches
                 ELSE /\ pPc' = "digesting"
                      /\ pReports' = r
                      /\ pBatches' = 0
    /\ UNCHANGED <<pI, pDigests, pFolders, pInFlight, pCalls, pFailures, pResult>>

\* One turn of the digest loop: buildFileDigest returns a digest or null, and
\* every tenth file and the last one are reported.
DigestReturns ==
    /\ pPc = "digesting"
    /\ \E digest \in BOOLEAN :
          LET i == pI
              digests == pDigests + (IF digest THEN 1 ELSE 0)
              r == IF i % 10 = 0 \/ i = pSelected - 1
                   THEN Append(pReports, MappingProgress(i + 1, pSelected))
                   ELSE pReports
          IN  /\ pDigests' = digests
              /\ IF i + 1 < pSelected
                 THEN /\ pI' = i + 1
                      /\ pReports' = r
                      /\ UNCHANGED <<pPc, pBatches>>
                 ELSE \E next \in AfterDigests(r, digests) :
                         /\ pI' = 0
                         /\ pPc' = next.pc
                         /\ pReports' = next.reports
                         /\ pBatches' = next.batches
    /\ UNCHANGED <<pTotal, pSelected, pFolders, pInFlight, pCalls, pFailures, pResult>>

\* A turn of mapFileSummaries' or summarizeFolders' loop begins: the report,
\* then the request of callToolOnce.
SendBatch ==
    /\ pPc \in {"fileBatches", "folderBatches"}
    /\ pI < pBatches
    /\ Awaited(pInFlight)
    /\ pReports' = Append(pReports, IF pPc = "fileBatches"
                                    THEN FileBatchProgress(pI, pBatches)
                                    ELSE FolderBatchProgress(pI, pBatches))
    /\ pI' = pI + 1
    /\ pInFlight' = pInFlight + 1
    /\ pCalls' = pCalls + 1
    /\ UNCHANGED <<pPc, pTotal, pSelected, pDigests, pBatches, pFolders, pFailures,
                   pResult>>

\* The awaited callToolOnce of a batch settles: a throw leaves reviewCodebase,
\* a result is merged and the loop goes on or ends.
BatchSettles ==
    /\ pPc \in {"fileBatches", "folderBatches"}
    /\ pInFlight > 0
    /\ pInFlight' = pInFlight - 1
    /\ \E outcome \in CallOutcomes, found \in 0..1 :
          /\ pFailures' = pFailures + (IF outcome = "ok" THEN 0 ELSE 1)
          /\ IF ~callToolOnce(outcome)
             THEN /\ pPc' = "failed"
                  /\ UNCHANGED <<pI, pBatches, pFolders, pReports>>
             ELSE /\ pFolders' = IF pPc = "folderBatches" THEN pFolders + found
                                 ELSE pFolders
                  /\ IF pI < pBatches \/ pInFlight' > 0
                     THEN UNCHANGED <<pPc, pI, pBatches, pReports>>
                     ELSE \E next \in
                             IF pPc = "fileBatches"
                             THEN AfterFileBatches(
                                    Append(pReports, Progress("mapping", 62, 100)),
                                    pDigests)
                             ELSE AfterFolderBatches(
                                    Append(pReports, Progress("summarizing", 78, 100))) :
                             /\ pI' = 0
                             /\ pPc' = next.pc
                             /\ pReports' = next.reports
                             /\ pBatches' = next.batches
    /\ UNCHANGED <<pTotal, pSelected, pDigests, pCalls, pResult>>

\* The review pass (runToolEnabledReviewForBugs, or the ungrounded review
\* when tools are off) is called and sends its first request.
ReviewPassStarts ==
    /\ pPc = "prompted"
    /\ Awaited(pInFlight)
    /\ pPc' = "reviewing"
    /\ pInFlight' = pInFlight + 1
    /\ pCalls' = pCalls + 1
    /\ UNCHANGED <<pTotal, pSelected, pI, pDigests, pBatches, pFolders, pFailures,
                   pReports, pResult>>

\* The final reports and contents the review pass is given by the model.
PassBugs ==
    { RawBug(sev, JsVal("num", 2), JsVal("undef", 0)) :
        sev \in { SevStr("critical"), SevStr("minor"), SevStr("info"),
                  SevStr("blocker") } }

PassPayloads ==
    { [json |-> "bad", hasBugs |-> FALSE, bugs |-> <<>>] }
    \cup { [json |-> "ok", hasBugs |-> TRUE, bugs |-> b] : b \in SeqsUpTo(PassBugs, 2) }

\* What the review pass can end with: the normalizer's reading of a final
\* report or of plain content, a failed request, or the budget error.
ReviewPassOutcomes ==
    { parseBugsFromToolCall(p) : p \in PassPayloads }
    \cup { FallbackFromContent(p) : p \in PassPayloads }
    \cup { Threw("transport"), BudgetError(20) }

\* The review pass settles: its findings get the coverage finding and the
\* summary, the last report is made and the response is returned; a throw
\* leaves reviewCodebase.
ReviewPassSettles ==
    /\ pPc = "reviewing"
    /\ pInFlight > 0
    /\ pInFlight' = pInFlight - 1
    /\ \E outcome \in ReviewPassOutcomes :
          IF outcome.kind = "bugs"
          THEN /\ pResult' = codebaseResponse(ModelFindings(outcome.bugs),
                                              pTotal, pDigests, pFolders)
               /\ pReports' = Append(pReports, Progress("reviewing", 95, 100))
               /\ pPc' = "returned"
               /\ UNCHANGED pFailures
          ELSE /\ pPc' = "failed"
               /\ pFailures' = pFailures + 1
               /\ UNCHANGED <<pResult, pReports>>
    /\ UNCHANGED <<pTotal, pSelected, pI, pDigests, pBatches, pFolders, pCalls>>

\* ------------------------------------------------ the callers of a review

\* A diff is a sequence of characters.
IsWhitespace(ch) == ch \in {" ", "\n", "\t"}

RECURSIVE trimStart(_)
trimStart(s) == IF s # <<>> /\ IsWhitespace(s[1]) THEN trimStart(Tail(s)) ELSE s

RECURSIVE trimEnd(_)
trimEnd(s) ==
    IF s # <<>> /\ IsWhitespace(s[Len(s)])
    THEN trimEnd(SubSeq(s, 1, Len(s) - 1))
    ELSE s

\* A trim that leaves the string as it is.
trim_Identity(s) == s

\* String.prototype.trim
trim(s) == trimEnd(trimStart(s))

\* startReviewAnimation: !diffResult.diff || diffResult.diff.trim().length === 0
\* runReviewCli:         !diffResult.diff.trim() || diffResult.files.length === 0
NoChanges(path, diff, files) ==
    IF path = "interactive"
    THEN diff = <<>> \/ Len(trim(diff)) = 0
    ELSE trim(diff) = <<>> \/ files = 0

IdleCaller ==
    /\ cMode = "idle"
    /\ cPath = "idle"
    /\ cDiff = <<>>
    /\ cFiles = 0
    /\ cPc = "idle"
    /\ cMessage = ""
    /\ cReviewCalls = 0
    /\ cResponse = NoResponse

\* The values of toolsConfig.maxToolCalls in SpecReview.
ReviewBudgets == {1, 2}

\* reviewCode is called: with tools enabled it calls the driver.
CallReviewCode ==
    /\ cReviewCalls' = cReviewCalls + 1
    /\ cPc' = "reviewing"
    /\ maxToolCalls' \in IF cReviewCalls = 0 THEN ReviewBudgets ELSE {maxToolCalls}
    /\ pc' = "start"
    /\ toolCallCount' = 0
    /\ messages' = <<SystemMsg, UserMsg>>
    /\ batch' = <<>>
    /\ idx' = 0
    /\ requests' = 0
    /\ executed' = <<>>
    /\ emitted' = <<>>
    /\ nextId' = 1
    /\ result' = NoOutcome

\* getFullDiff throws.
DiffFails ==
    /\ cPc = "start"
    /\ cMode = "diff"
    /\ cPc' = "failed"
    /\ cMessage' = "Failed to get diff"
    /\ UNCHANGED <<cMode, cPath, cDiff, cFiles, cReviewCalls, cResponse>>
    /\ UNCHANGED <<driverVars, pipeVars>>

\* getFullDiff returns: a diff with no changes is reported and nothing else
\* happens, any other diff is handed to reviewCode.
DiffExtracted ==
    /\ cPc = "start"
    /\ cMode = "diff"
    /\ IF NoChanges(cPath, cDiff, cFiles)
       THEN /\ cMessage' = "No changes to review."
            /\ cPc' = "done"
            /\ UNCHANGED <<cReviewCalls, driverVars>>
       ELSE /\ CallReviewCode
            /\ UNCHANGED cMessage
    /\ UNCHANGED <<cMode, cPath, cDiff, cFiles, cResponse, pipeVars>>

\* reviewCodeWithTools: the driver returned, the summary is counted.
ReviewCodeReturns ==
    /\ cPc = "reviewing"
    /\ cMode = "diff"
    /\ pc = "done"
    /\ cResponse' = Response(ModelFindings(result.bugs))
    /\ cPc' = "done"
    /\ cMessage' = "Review complete"
    /\ UNCHANGED <<cMode, cPath, cDiff, cFiles, cReviewCalls, driverVars, pipeVars>>

\* message.includes("401") and the like: only a failed request can look so.
LooksLikeAuthError(error) == IF error \in {"http", "transport"} THEN BOOLEAN ELSE {FALSE}

\* reviewCode throws: the interactive path retries once after what looks like
\* an authentication error, every other throw is reported.
ReviewCodeThrows ==
    /\ cPc = "reviewing"
    /\ cMode = "diff"
    /\ pc = "failed"
    /\ \E auth \in LooksLikeAuthError(result.error) :
          IF cPath = "interactive" /\ auth /\ cReviewCalls = 1
          THEN /\ CallReviewCode
               /\ UNCHANGED cMessage
          ELSE /\ cPc' = "failed"
               /\ cMessage' = "AI review failed"
               /\ UNCHANGED <<cReviewCalls, driverVars>>
    /\ UNCHANGED <<cMode, cPath, cDiff, cFiles, cResponse, pipeVars>>

\* A codebase review is asked for: reviewCodebase is called.
CallReviewCodebase ==
    /\ cPc = "start"
    /\ cMode = "codebase"
    /\ cReviewCalls' = cReviewCalls + 1
    /\ cPc' = "reviewing"
    /\ EnterReviewCodebase
    /\ UNCHANGED <<cMode, cPath, cDiff, cFiles, cMessage, cResponse, driverVars>>

ReviewCodebaseReturns ==
    /\ cPc = "reviewing"
    /\ cMode = "codebase"
    /\ pPc = "returned"
    /\ cResponse' = pResult
    /\ cPc' = "done"
    /\ cMessage' = "Review complete"
    /\ UNCHANGED <<cMode, cPath, cDiff, cFiles, cReviewCalls, driverVars, pipeVars>>

\* reviewCodebase throws: retried once on the interactive path, as above.
ReviewCodebaseThrows ==
    /\ cPc = "reviewing"
    /\ cMode = "codebase"
    /\ pPc = "failed"
    /\ \E auth \in BOOLEAN :
          IF cPath = "interactive" /\ auth /\ cReviewCalls = 1
          THEN /\ cReviewCalls' = cReviewCalls + 1
               /\ EnterReviewCodebase
               /\ UNCHANGED <<cPc, cMessage>>
          ELSE /\ cPc' = "failed"
               /\ cMessage' = "AI review failed"
               /\ UNCHANGED <<cReviewCalls, pipeVars>>
    /\ UNCHANGED <<cMode, cPath, cDiff, cFiles, cResponse, driverVars>>

\* ------------------------------------------------- mapLimit (codebase.ts)

\* buildCodebaseIndex's STAT_CONCURRENCY
STAT_CONCURRENCY == 16

\* The paths buildCodebaseIndex hands to mapLimit.
StatPaths == <<"a.ts", "b.ts", "c.ts", "d.ts", "e.ts">>

\* A worker pool as wide as concurrency says, whatever the items.
WorkerCount_Unbounded(concurrency, n) == concurrency

\* Math.max(1, Math.min(concurrency, items.length))
WorkerCount(concurrency, n) ==
    LET least == IF concurrency < n THEN concurrency ELSE n
    IN  IF least < 1 THEN 1 ELSE least

\* A slot of new Array(items.length) nothing was stored in.
Hole == [set |-> FALSE, path |-> "", file |-> FALSE]

\* What the stat mapper resolves with for a path: null (file = FALSE) or
\* the path's CodebaseFileInfo.
StatResult(path, file) == [set |-> TRUE, path |-> path, file |-> file]

\* A worker that has left its loop.
WorkerReturned == 0 - 1

\* The synchronous part of one turn of a worker's loop, on st = the
\* nextIndex, workers and calls so far: i = nextIndex++, then return when
\* i >= items.length, else call mapper(items[i], i) and await it.
TakeNext(st, w, n) ==
    LET i == st.nextIndex
    IN  IF i >= n
        THEN [st EXCEPT !.nextIndex = i + 1, !.workers[w] = WorkerReturned]
        ELSE [st EXCEPT !.nextIndex = i + 1, !.workers[w] = i,
                        !.calls[i] = @ + 1]

\* Array.from runs each worker up to its first await, one after the other.
RECURSIVE StartWorkers(_, _, _)
StartWorkers(st, w, n) ==
    IF w > Cardinality(DOMAIN st.workers) THEN st
    ELSE StartWorkers(TakeNext(st, w, n), w + 1, n)

\* Mapper calls awaited at this moment.
InFlight == Cardinality({ w \in DOMAIN workers : workers[w] # WorkerReturned })

IdleLimit ==
    /\ lItems = <<>>
    /\ lConcurrency = 0
    /\ lPc = "idle"
    /\ nextIndex = 0
    /\ workers = <<>>
    /\ lResults = <<>>
    /\ lCalls = <<>>

\* mapLimit is called: results is allocated and the workers are started.
EnterMapLimit ==
    /\ lPc = "start"
    /\ LET n == Len(lItems)
           st == StartWorkers(
                    [nextIndex |-> 0,
                     workers |-> [w \in 1..WorkerCount(lConcurrency, n) |-> WorkerReturned],
                     calls |-> [i \in 0..(n - 1) |-> 0]], 1, n)
       IN  /\ nextIndex' = st.nextIndex
           /\ workers' = st.workers
           /\ lCalls' = st.calls
           /\ lResults' = [i \in 0..(n - 1) |-> Hole]
    /\ lPc' = "running"
    /\ UNCHANGED <<lItems, lConcurrency>>

\* A mapper call settles, in any order: its worker stores the result at the
\* index it took and goes round its loop.
MapperSettles ==
    /\ lPc = "running"
    /\ \E w \in DOMAIN workers : \E file \in BOOLEAN :
          LET i == workers[w]
              st == TakeNext([nextIndex |-> nextIndex, workers |-> workers,
                              calls |-> lCalls], w, Len(lItems))
          IN  /\ i # WorkerReturned
              /\ lResults' = [lResults EXCEPT ![i] = StatResult(lItems[i + 1], file)]
              /\ nextIndex' = st.nextIndex
              /\ workers' = st.workers
              /\ lCalls' = st.calls
    /\ UNCHANGED <<lItems, lConcurrency, lPc>>

\* Every worker has returned: Promise.all resolves and results is returned.
WorkersDone ==
    /\ lPc = "running"
    /\ \A w \in DOMAIN workers : workers[w] = WorkerReturned
    /\ lPc' = "returned"
    /\ UNCHANGED <<lItems, lConcurrency, nextIndex, workers, lResults, lCalls>>

\* ------------------------------------------------------ chunkByCharBudget

\* The maxChars mapFileSummaries and summarizeFolders pass.
PROMPT_MAX_CHARS == 28000

\* A rendered item: its length, and how much of it is trailing white space.
\* A rendering starts with "PATH:" or "FOLDER:", never with white space.
Block(len, pad) == [len |-> len, pad |-> pad]

\* The renderings SpecChunk draws from; the empty one is skipped by !block.
Blocks ==
    { Block(0, 0), Block(1, 0), Block(13998, 0), Block(14000, 1),
      Block(27998, 0), Block(28000, 0), Block(28001, 0) }

\* current + (current ? "\n\n" : "") + block
Joined(current, block) ==
    Block(current.len + (IF current.len > 0 THEN 2 ELSE 0) + block.len, block.pad)

\* current.trim().length
TrimmedLength(current) == current.len - current.pad

\* if (current.trim()) chunks.push(current.trim())
Pushed(out, current) ==
    IF TrimmedLength(current) > 0 THEN Append(out, TrimmedLength(current)) ELSE out

\* chunkByCharBudget's loop from item i on, and its last push.
RECURSIVE ChunkFrom(_, _, _, _, _)
ChunkFrom(items, i, current, out, maxChars) ==
    IF i > Len(items) THEN Pushed(out, current)
    ELSE LET block == items[i]
         IN  IF block.len = 0
             THEN ChunkFrom(items, i + 1, current, out, maxChars)
             ELSE IF current.len + block.len + 2 > maxChars
                  THEN ChunkFrom(items, i + 1, block, Pushed(out, current), maxChars)
                  ELSE ChunkFrom(items, i + 1, Joined(current, block), out, maxChars)

chunkByCharBudget(items, maxChars) == ChunkFrom(items, 1, Block(0, 0), <<>>, maxChars)

IdleChunk ==
    /\ kItems = <<>>
    /\ kPc = "idle"
    /\ chunks = <<>>

\* mapFileSummaries or summarizeFolders cuts its rendered items into batches.
CutBatches ==
    /\ kPc = "start"
    /\ chunks' = chunkByCharBudget(kItems, PROMPT_MAX_CHARS)
    /\ kPc' = "cut"
    /\ UNCHANGED kItems

\* ----------------------------- reviewCode, reviewCodebase: the tools policy

IdlePolicy ==
    /\ gEntry = "idle"
    /\ gEnabled = FALSE
    /\ gMaxToolCalls = 0
    /\ gPc = "idle"
    /\ gRequest = "none"
    /\ gResponse = <<>>
    /\ gOutcome = NoOutcome

\* reviewCodebase's floor under maxToolCalls
CODEBASE_MIN_TOOL_CALLS == 20

\* Math.max
MathMax(a, b) == IF a >= b THEN a ELSE b

\* The maxToolCalls of the ToolsConfig the entry point hands to the driver:
\* reviewCode passes the caller's object on, reviewCodebase passes
\* { ...toolsConfig, maxToolCalls: Math.max(toolsConfig.maxToolCalls, 20) }.
EffectiveMaxToolCalls(entry, max) ==
    IF entry = "reviewCodebase" THEN MathMax(max, CODEBASE_MIN_TOOL_CALLS) ELSE max

\* An entry point that takes the grounded path whatever the policy says.
ToolsEnabled_Always(enabled) == TRUE

\* if (toolsConfig.enabled) and effectiveToolsConfig.enabled ? ... : ...
ToolsEnabled(enabled) == enabled

\* tools: [REVIEW_TOOL], tool_choice: { type: "function",
\*   function: { name: "report_code_review" } }
ForcedReport == "tools: report_code_review; tool_choice: report_code_review"

\* A chat-completion response as parseToolCallResponse reads it.
ChatResponse(kind, calls, payload) == [kind |-> kind, calls |-> calls, payload |-> payload]

\* The responses to the single-shot request: no choices[0], tool_calls (any
\* the model likes to send, forced choice or not), content only, neither.
SingleResponses ==
    { ChatResponse("no-choices", <<>>, NoPayload), ChatResponse("empty", <<>>, NoPayload) }
      \cup { ChatResponse("content", <<>>, p) : p \in DriverPayloads }
      \cup { ChatResponse("tool_calls", WithIds(shapes, 1), NoPayload) :
                shapes \in SeqsUpTo(CallShapes, MaxBatch) \ {<<>>} }

parseToolCallResponse(data) ==
    IF data.kind = "no-choices" THEN Threw("no-choices")
    ELSE IF data.calls = <<>>
         THEN IF data.kind = "content" THEN FallbackFromContent(data.payload)
              ELSE Threw("no-tool-calls-no-content")
    ELSE IF FindReviewCall(data.calls) = 0 THEN Threw("no-report-call")
    ELSE parseBugsFromToolCall(data.calls[FindReviewCall(data.calls)].payload)

\* reviewCode or the review pass of reviewCodebase is reached: with tools
\* enabled the driver is started, otherwise the single-shot request is sent.
EnterReview ==
    /\ gPc = "start"
    /\ IF ToolsEnabled(gEnabled)
       THEN /\ gPc' = "grounded"
            /\ maxToolCalls' = EffectiveMaxToolCalls(gEntry, gMaxToolCalls)
            /\ pc' = "start"
            /\ messages' = <<SystemMsg, UserMsg>>
            /\ UNCHANGED <<gRequest, toolCallCount, batch, idx, requests, executed,
                           emitted, nextId, result>>
       ELSE /\ gPc' = "single"
            /\ gRequest' = ForcedReport
            /\ UNCHANGED driverVars
    /\ UNCHANGED <<gEntry, gEnabled, gMaxToolCalls, gResponse, gOutcome>>

\* The single-shot request settles: fetchWithRetry throws, the response is
\* not ok, or parseToolCallResponse reads the response.
SingleShotSettles ==
    /\ gPc = "single"
    /\ \/ /\ \E e \in {"transport", "http"} : gOutcome' = Threw(e)
          /\ UNCHANGED gResponse
       \/ \E data \in SingleResponses :
             /\ gResponse' = data.calls
             /\ gOutcome' = parseToolCallResponse(data)
    /\ gPc' = IF gOutcome'.kind = "bugs" THEN "returned" ELSE "thrown"
    /\ UNCHANGED <<gEntry, gEnabled, gMaxToolCalls, gRequest, driverVars>>

\* runToolEnabledReviewForBugs returns or throws.
GroundedPassEnds ==
    /\ gPc = "grounded"
    /\ pc \in {"done", "failed"}
    /\ gOutcome' = result
    /\ gPc' = IF pc = "done" THEN "returned" ELSE "thrown"
    /\ UNCHANGED <<gEntry, gEnabled, gMaxToolCalls, gRequest, gResponse, driverVars>>

\* -------------------------------------------------------- specifications

InitNorm ==
    /\ nPayload \in NormPayloads
    /\ nRoute = "none"
    /\ nOutcome = NoOutcome
    /\ IdleTools /\ IdleDriver /\ IdleFetch /\ IdleSandbox /\ IdleMap
    /\ IdlePipeline /\ IdleCaller /\ IdleLimit /\ IdleChunk /\ IdlePolicy

NextNorm ==
    \/ NormalizeToolCall /\ UNCHANGED notNorm
    \/ NormalizeContent /\ UNCHANGED notNorm

SpecNorm == InitNorm /\ [][NextNorm]_vars

InitTools ==
    /\ tCall \in ToolCalls
    /\ tConfig \in ToolsConfigs
    /\ tPc = "ready"
    /\ tOutcome = Resolved(FALSE)
    /\ tHanded = NotHanded
    /\ IdleNorm /\ IdleDriver /\ IdleFetch /\ IdleSandbox /\ IdleMap
    /\ IdlePipeline /\ IdleCaller /\ IdleLimit /\ IdleChunk /\ IdlePolicy

NextTools ==
    \/ ExecuteToolCall /\ UNCHANGED notTools
    \/ CallSandbox /\ UNCHANGED notTools

SpecTools == InitTools /\ [][NextTools]_vars

BudgetValues == (0 - 1)..MaxBudget

InitDriver ==
    /\ maxToolCalls \in BudgetValues
    /\ pc = "start"
    /\ toolCallCount = 0
    /\ messages = <<SystemMsg, UserMsg>>
    /\ batch = <<>>
    /\ idx = 0
    /\ requests = 0
    /\ executed = <<>>
    /\ emitted = <<>>
    /\ nextId = 1
    /\ result = NoOutcome
    /\ IdleNorm /\ IdleTools /\ IdleFetch /\ IdleSandbox /\ IdleMap
    /\ IdlePipeline /\ IdleCaller /\ IdleLimit /\ IdleChunk /\ IdlePolicy

NextDriver ==
    \/ StartDriver /\ UNCHANGED notDriver
    \/ ReceiveFailure /\ UNCHANGED notDriver
    \/ ReceiveReport /\ UNCHANGED notDriver
    \/ ReceiveToolCalls /\ UNCHANGED notDriver
    \/ ReceiveContent /\ UNCHANGED notDriver
    \/ ReceiveNothing /\ UNCHANGED notDriver
    \/ ToolRejects /\ UNCHANGED notDriver
    \/ ToolResolves /\ UNCHANGED notDriver

SpecDriver == InitDriver /\ [][NextDriver]_vars

\* Every model request and every tool execution settles in the end.
SpecDriverFair == InitDriver /\ [][NextDriver]_vars /\ WF_vars(NextDriver)

InitFetch ==
    /\ fMaxRetries \in 0..MaxRetriesBound
    /\ fPc = "start"
    /\ attempt = 0
    /\ callerAborted = FALSE
    /\ signalAborted = FALSE
    /\ listening = FALSE
    /\ ctrlAborted = FALSE
    /\ lastError = NoError
    /\ fLog = <<>>
    /\ fResult = 0
    /\ IdleNorm /\ IdleTools /\ IdleDriver /\ IdleSandbox /\ IdleMap
    /\ IdlePipeline /\ IdleCaller /\ IdleLimit /\ IdleChunk /\ IdlePolicy

NextFetch ==
    \/ StartFetch /\ UNCHANGED notFetch
    \/ CallerAborts /\ UNCHANGED notFetch
    \/ TimeoutFires /\ UNCHANGED notFetch
    \/ FetchResponds /\ UNCHANGED notFetch
    \/ FetchRejects /\ UNCHANGED notFetch
    \/ DrainEnds /\ UNCHANGED notFetch
    \/ BackoffEnds /\ UNCHANGED notFetch

SpecFetch == InitFetch /\ [][NextFetch]_vars

\* Every pending step of a call is taken in the end: fetch settles (the timer
\* cuts a hanging one), the drain and the backoff timer end.
FetchProgress ==
    /\ StartFetch \/ TimeoutFires \/ FetchResponds \/ FetchRejects
          \/ DrainEnds \/ BackoffEnds
    /\ UNCHANGED notFetch

SpecFetchFair == InitFetch /\ [][NextFetch]_vars /\ WF_vars(FetchProgress)

InitSandbox ==
    /\ sCall \in SandboxCalls
    /\ sPc = "start"
    /\ sFx = <<>>
    /\ sResult = NoResult
    /\ IdleNorm /\ IdleTools /\ IdleDriver /\ IdleFetch /\ IdleMap
    /\ IdlePipeline /\ IdleCaller /\ IdleLimit /\ IdleChunk /\ IdlePolicy

NextSandbox ==
    \/ ReadFileEnters /\ UNCHANGED notSandbox
    \/ StatSettles /\ UNCHANGED notSandbox
    \/ ReadSettles /\ UNCHANGED notSandbox
    \/ SearchEnters /\ UNCHANGED notSandbox
    \/ SearchSettles /\ UNCHANGED notSandbox
    \/ GitEnters /\ UNCHANGED notSandbox
    \/ GitSettles /\ UNCHANGED notSandbox
    \/ CheckEnters /\ UNCHANGED notSandbox
    \/ CheckCloses /\ UNCHANGED notSandbox
    \/ CheckErrors /\ UNCHANGED notSandbox
    \/ CheckTimesOut /\ UNCHANGED notSandbox

SpecSandbox == InitSandbox /\ [][NextSandbox]_vars

\* The steps of a sandbox operation that the code itself brings about: its
\* synchronous checks, the filesystem calls it awaits, and the timers it
\* arms (searchRepo's and runCheck's setTimeout).  What execGitCommand
\* waits for, the 'close' or 'error' event of the git child, is not among
\* them: no timer is armed there.
SandboxProgress ==
    /\ \/ ReadFileEnters
       \/ StatSettles
       \/ ReadSettles
       \/ SearchEnters
       \/ SearchSettles
       \/ GitEnters
       \/ CheckEnters
       \/ CheckTimesOut
    /\ UNCHANGED notSandbox

SpecSandboxFair == InitSandbox /\ [][NextSandbox]_vars /\ WF_vars(SandboxProgress)

InitMap ==
    /\ mAll \in SUBSET IndexedPaths
    /\ mEntry \in SUBSET (mAll \cap {<<"src", "main.ts">>, <<".env">>})
    /\ mMax \in 1..MaxMapFiles
    /\ mPc = "start"
    /\ mSelected = <<>>
    /\ mIdx = 0
    /\ mFx = {}
    /\ mDigests = <<>>
    /\ IdleNorm /\ IdleTools /\ IdleDriver /\ IdleFetch /\ IdleSandbox
    /\ IdlePipeline /\ IdleCaller /\ IdleLimit /\ IdleChunk /\ IdlePolicy

NextMap ==
    \/ IndexAndPick /\ UNCHANGED notMap
    \/ DigestNext /\ UNCHANGED notMap
    \/ CallBuildFileDigest /\ UNCHANGED notMap

SpecMap == InitMap /\ [][NextMap]_vars

\* The diffs and file counts getFullDiff hands over.
DiffChars == {" ", "\n", "+"}

Diffs == SeqsUpTo(DiffChars, MaxDiffLen)

InitReview ==
    /\ cMode \in {"diff", "codebase"}
    /\ cPath \in {"interactive", "headless"}
    /\ cDiff \in IF cMode = "diff" THEN Diffs ELSE {<<>>}
    /\ cFiles \in IF cMode = "diff" /\ cPath = "headless" THEN 0..1 ELSE {0}
    /\ cPc = "start"
    /\ cMessage = ""
    /\ cReviewCalls = 0
    /\ cResponse = NoResponse
    /\ IdleNorm /\ IdleTools /\ IdleDriver /\ IdleFetch /\ IdleSandbox /\ IdleMap
    /\ IdlePipeline /\ IdleLimit /\ IdleChunk /\ IdlePolicy

NextReview ==
    \/ DiffFails /\ UNCHANGED notReview
    \/ DiffExtracted /\ UNCHANGED notReview
    \/ ReviewCodeReturns /\ UNCHANGED notReview
    \/ ReviewCodeThrows /\ UNCHANGED notReview
    \/ CallReviewCodebase /\ UNCHANGED notReview
    \/ ReviewCodebaseReturns /\ UNCHANGED notReview
    \/ ReviewCodebaseThrows /\ UNCHANGED notReview
    \/ NextDriver
    \/ Indexed /\ UNCHANGED notPipeline
    \/ DigestReturns /\ UNCHANGED notPipeline
    \/ SendBatch /\ UNCHANGED notPipeline
    \/ BatchSettles /\ UNCHANGED notPipeline
    \/ ReviewPassStarts /\ UNCHANGED notPipeline
    \/ ReviewPassSettles /\ UNCHANGED notPipeline

SpecReview == InitReview /\ [][NextReview]_vars

Concurrencies == {0 - 1, 0, 1, 2, STAT_CONCURRENCY}

InitLimit ==
    /\ lItems \in { SubSeq(StatPaths, 1, n) : n \in 0..MaxItems }
    /\ lConcurrency \in Concurrencies
    /\ lPc = "start"
    /\ nextIndex = 0
    /\ workers = <<>>
    /\ lResults = <<>>
    /\ lCalls = <<>>
    /\ IdleNorm /\ IdleTools /\ IdleDriver /\ IdleFetch /\ IdleSandbox /\ IdleMap
    /\ IdlePipeline /\ IdleCaller /\ IdleChunk /\ IdlePolicy

NextLimit ==
    \/ EnterMapLimit /\ UNCHANGED notLimit
    \/ MapperSettles /\ UNCHANGED notLimit
    \/ WorkersDone /\ UNCHANGED notLimit

SpecLimit == InitLimit /\ [][NextLimit]_vars

InitChunk ==
    /\ kItems \in SeqsUpTo(Blocks, MaxBlocks)
    /\ kPc = "start"
    /\ chunks = <<>>
    /\ IdleNorm /\ IdleTools /\ IdleDriver /\ IdleFetch /\ IdleSandbox /\ IdleMap
    /\ IdlePipeline /\ IdleCaller /\ IdleLimit /\ IdlePolicy

NextChunk == CutBatches /\ UNCHANGED notChunk

SpecChunk == InitChunk /\ [][NextChunk]_vars

\* The caller's toolsConfig.maxToolCalls in SpecPolicy.
PolicyBudgets == {1, 5, CODEBASE_MIN_TOOL_CALLS + 1}

InitPolicy ==
    /\ gEntry \in {"reviewCode", "reviewCodebase"}
    /\ gEnabled \in BOOLEAN
    /\ gMaxToolCalls \in PolicyBudgets
    /\ gPc = "start"
    /\ gRequest = "none"
    /\ gResponse = <<>>
    /\ gOutcome = NoOutcome
    /\ IdleNorm /\ IdleTools /\ IdleDriver /\ IdleFetch /\ IdleSandbox /\ IdleMap
    /\ IdlePipeline /\ IdleCaller /\ IdleLimit /\ IdleChunk

NextPolicy ==
    \/ EnterReview /\ UNCHANGED notPolicy
    \/ SingleShotSettles /\ UNCHANGED notPolicy
    \/ GroundedPassEnds /\ UNCHANGED notPolicy
    \/ NextDriver

SpecPolicy == InitPolicy /\ [][NextPolicy]_vars

\* ================================================================ claims

IsReport(call) == call.name = "report_code_review"

\* The ids of the role=tool messages of a conversation, in order.
ToolMsgIds(msgs) ==
    LET t == SelectSeq(msgs, LAMBDA m : m.role = "tool")
    IN  [i \in 1..Len(t) |-> t[i].id]

IsPrefix(a, b) == Len(a) <= Len(b) /\ a = SubSeq(b, 1, Len(a))

\* ---- C1 (SpecDriver)
\* One driver invocation hands at most maxToolCalls tool calls to
\* executeToolCall (none when maxToolCalls is not positive), also when one
\* model turn holds more calls than the budget that is left.
C1_BudgetRespected ==
    /\ Len(executed) <= (IF maxToolCalls > 0 THEN maxToolCalls ELSE 0)
    /\ toolCallCount <= Len(executed)

\* A batch of two is cut short after its first call, which used up the budget.
C1_Witness ==
    /\ pc = "failed"
    /\ result = BudgetError(maxToolCalls)
    /\ maxToolCalls >= 1
    /\ Len(batch) = 2
    /\ idx = 1
    /\ toolCallCount = maxToolCalls

\* ---- C2 (SpecDriver)
\* No failing tool call ends the driver invocation: once a handed-out call is
\* no longer executing, a role=tool message with its id is in the conversation.
C2_ToolFailureIsRecovered ==
    /\ result.error # "tool-exception"
    /\ pc # "executing" => ToolMsgIds(messages) = executed

\* ---- C3 (SpecTools)
\* The limits executeToolCall hands to the sandbox never exceed the values of
\* the ToolsConfig.
C3_LimitsClamped ==
    (tPc = "settled" /\ tHanded.handed) =>
        CASE tHanded.tool = "search_repo" ->
                /\ tHanded.limit <= tConfig.maxResults
                /\ tHanded.timeout <= tConfig.searchTimeoutMs
          [] tHanded.tool = "read_file" -> tHanded.limit <= tConfig.maxBytes
          [] tHanded.tool = "run_check" -> tHanded.timeout <= tConfig.checkTimeoutMs
          [] OTHER -> TRUE

\* ---- C4 (SpecDriver)
\* Once maxToolCalls executions are used up with no final report, the
\* invocation has failed with the budget error stating maxToolCalls; a failed
\* invocation stays failed and sends no further request.
C4_BudgetErrorRaised ==
    /\ [](  (pc # "start" /\ toolCallCount >= maxToolCalls)
            => (pc = "failed" /\ result = BudgetError(maxToolCalls)) )
    /\ [](result.error = "budget" => result.n = maxToolCalls)
    /\ [][pc = "failed" => (pc' = "failed" /\ requests' = requests)]_vars

\* The budget of at least two calls was used up and the error states it.
C4_Witness ==
    /\ pc = "failed"
    /\ result.error = "budget"
    /\ result.n = maxToolCalls
    /\ maxToolCalls >= 2
    /\ toolCallCount = maxToolCalls

\* ---- C5 (SpecDriver)
\* When the tool calls of a model turn include the final-report call, the
\* invocation ends on that turn with what parseBugsFromToolCall makes of that
\* call, and no call of that turn is executed, wherever the report stands.
C5_ReportEndsTurn ==
    (\E i \in 1..Len(batch) : IsReport(batch[i])) =>
        /\ pc \in {"done", "failed"}
        /\ \E i \in 1..Len(batch) :
              /\ IsReport(batch[i])
              /\ \A j \in 1..(i - 1) : ~IsReport(batch[j])
              /\ result = parseBugsFromToolCall(batch[i].payload)
        /\ pc = "done" <=> result.kind = "bugs"
        /\ \A i \in 1..Len(batch) : \A k \in 1..Len(executed) :
              executed[k] # batch[i].id

\* The report stands second, after a grounding call that was not executed.
C5_Witness ==
    /\ pc = "done"
    /\ Len(batch) = 2
    /\ ~IsReport(batch[1])
    /\ IsReport(batch[2])
    /\ result.kind = "bugs"
    /\ Len(result.bugs) = 1
    /\ requests >= 2

\* ---- C6 (SpecDriver)
\* As claimed: every emitted tool call is executed exactly once and answered
\* by exactly one role=tool message, in emission order.
C6_EveryCallAnswered ==
    pc \in {"awaiting", "done", "failed"} =>
        /\ executed = emitted
        /\ ToolMsgIds(messages) = emitted

\* As amended: calls are executed in emission order without repeats; every
\* call whose execution returned has exactly one role=tool message, in order;
\* when the driver goes on to another turn every emitted call was executed;
\* calls are left out only on a turn that holds the final report, after the
\* budget was hit mid-batch, or after a tool execution threw.
C6_ExecutedInOrder ==
    /\ IsPrefix(executed, emitted)
    /\ \A i, j \in 1..Len(emitted) : emitted[i] = emitted[j] => i = j
    /\ ToolMsgIds(messages) = SubSeq(executed, 1, toolCallCount)
    /\ Len(executed) - toolCallCount \in {0, 1}
    /\ Len(executed) # toolCallCount =>
          (pc = "executing" \/ result.error = "tool-exception")
    /\ pc = "awaiting" => executed = emitted
    /\ (pc \in {"done", "failed"} /\ executed # emitted) =>
          \/ \E i \in 1..Len(batch) : IsReport(batch[i])
          \/ result.error = "budget"
          \/ result.error = "tool-exception"

\* A whole batch of two was executed and answered and the driver goes on.
C6_Witness ==
    /\ pc = "awaiting"
    /\ Len(batch) = 2
    /\ executed = emitted
    /\ Len(executed) >= 2
    /\ ToolMsgIds(messages) = executed

\* ---- C7 (SpecTools)
\* A sandbox operation called directly settles with a ToolResult, never with
\* a rejection, whatever its arguments.
C7_SandboxNeverRejects ==
    tPc = "returned" => tOutcome.kind = "resolved"

\* ---- C8 (SpecNorm)
\* Every finding the normalizer produces has startLine >= 1 and
\* endLine >= startLine.
C8_LinesOrdered ==
    \A i \in 1..Len(nOutcome.bugs) :
        /\ nOutcome.bugs[i].startLine >= 1
        /\ nOutcome.bugs[i].endLine >= nOutcome.bugs[i].startLine

\* ---- C9 (SpecNorm)
\* A payload that parses and has a bugs array yields findings and no error,
\* as a final-report tool call and as plain content.
C9_FailsOnlyOnBadPayload ==
    (nRoute \in {"toolcall", "content"} /\ nPayload.json = "ok" /\ nPayload.hasBugs)
        => nOutcome.kind = "bugs"

\* ---- C10 (SpecFetch)
\* After 503 on each of the first k attempts, k <= maxRetries and no caller
\* abort, fetchWithRetry has neither returned nor thrown; when attempt k+1
\* then answers 200, it returns that response after exactly k+1 attempts.
All503(log) == \A i \in 1..Len(log) : log[i] = Answered(503)

C10_RetryLaw ==
    /\ (Len(fLog) >= 1 /\ Len(fLog) <= fMaxRetries /\ All503(fLog) /\ ~signalAborted)
          => fPc \in {"draining", "backoff", "fetching"}
    /\ (Len(fLog) >= 1 /\ fLog[Len(fLog)] = Answered(200)
            /\ All503(SubSeq(fLog, 1, Len(fLog) - 1)))
          => (fPc = "returned" /\ fResult = 200 /\ Started = Len(fLog)
              /\ lastError = NoError)

\* Two 503 answers, then 200 on the third attempt, which is returned.
C10_Witness ==
    /\ fPc = "returned"
    /\ fResult = 200
    /\ Len(fLog) = 3
    /\ fLog[1] = Answered(503)
    /\ fLog[2] = Answered(503)
    /\ fMaxRetries >= 3


\* ---- C11 (SpecFetchFair)
\* Once the caller's signal is aborted (before the call, while a fetch is in
\* flight, while a body is drained or during a backoff wait) no further HTTP
\* attempt is started, no response is returned, and the call ends by throwing.
C11_AbortStopsFetch ==
    /\ [][signalAborted => (Started' = Started /\ fPc' # "returned")]_vars
    /\ [](signalAborted => fPc # "returned")
    /\ (signalAborted ~> fPc = "thrown")

\* The call threw after an abort that came while a 503 body was drained or
\* during the backoff wait after it, with retries still left.
C11_Witness ==
    /\ signalAborted
    /\ fPc = "thrown"
    /\ attempt <= fMaxRetries
    /\ Len(fLog) >= 1
    /\ fLog[Len(fLog)] = Answered(503)

\* ---- C12 (SpecFetch)
\* An attempt cut by the internal timer alone goes to the backoff wait while
\* attempt < maxRetries, the wait is followed by the next attempt unless the
\* caller aborted meanwhile, and at most maxRetries + 1 attempts are started.
C12_TimeoutRetried ==
    /\ [](Started <= fMaxRetries + 1)
    /\ [][(fPc = "fetching" /\ ctrlAborted /\ ~callerAborted
            /\ fPc' # "fetching" /\ attempt < fMaxRetries)
              => (fPc' = "backoff" /\ lastError' = AbortError)]_vars
    /\ [][(fPc = "backoff" /\ ~signalAborted /\ fPc' # "backoff")
              => (fPc' = "fetching" /\ attempt' = attempt + 1)]_vars

\* A retry is in flight right after an attempt that the internal timer cut.
C12_Witness ==
    /\ fPc = "fetching"
    /\ ~signalAborted
    /\ attempt >= 1
    /\ Len(fLog) = attempt
    /\ fLog[Len(fLog)] = Failed(AbortError)

\* ---- C13 (SpecFetch)
\* When each of the maxRetries + 1 attempts ended in a retryable condition (a
\* retryable error or a retryable status) the call has thrown, with the
\* proxy-not-running hint after a connection refusal and the overloaded hint
\* after an internal timeout.
RetryableEnd(entry) ==
    IF entry.kind = "status" THEN isRetryableStatus(entry.status)
    ELSE isRetryableError(entry.error, FALSE)

C13_ExhaustionFails ==
    (/\ Len(fLog) = fMaxRetries + 1
     /\ ~signalAborted
     /\ \A i \in 1..Len(fLog) : RetryableEnd(fLog[i]))
        => /\ fPc = "thrown"
           /\ fLog[Len(fLog)] = Failed(Err("Error", "econnrefused"))
                 => hint(lastError) = "proxy-not-running"
           /\ fLog[Len(fLog)] = Failed(AbortError)
                 => hint(lastError) = "overloaded"

\* The file names the secret-path heuristic is meant to catch.
SecretNames ==
    {".env", ".env.local", "id_rsa", "id_dsa", "server.pem", "cert.PEM"}

\* ---- C14 (SpecSandbox)
\* readFile on a path that passes the containment check and names a secret
\* file (.env, .env.local, a .pem file, id_rsa) returns success:false with
\* the potential-secret error and has made no filesystem access.
C14_SecretNeverOpened ==
    (/\ sCall.op = "readFile"
     /\ sPc # "start"
     /\ ~IsEmptyPath(sCall.path)
     /\ isPathWithinRepo(sCall.path)
     /\ basename(sCall.path) \in SecretNames)
        => /\ sPc = "done"
           /\ sResult = Result(FALSE, "Refusing to read potential secret file")
           /\ sFx = <<>>

\* readFile has refused src/cert.PEM inside the repository.
C14_Witness ==
    /\ sCall = SandboxCall("readFile", PathOf(FALSE, <<"src", "cert.PEM">>), "", <<>>)
    /\ sPc = "done"
    /\ sResult.error = "Refusing to read potential secret file"

\* ---- C15 (SpecSandbox)
\* No result of searchRepo has a path that isPotentialSecretPath flags,
\* whatever the query and the globs.
C15_NoSecretInResults ==
    (sCall.op = "searchRepo" /\ sPc = "done")
        => \A f \in sResult.paths : ~isPotentialSecretPath(PathOf(FALSE, f))

\* ---- C17 (SpecSandbox)
\* readFile refuses every path whose resolution leaves the repository with
\* the outside-the-repository error and without any filesystem access, also
\* when the path names a secret or a binary file.
C17_OutsideReasonFirst ==
    (/\ sCall.op = "readFile"
     /\ sPc # "start"
     /\ LET rel == relative(getRepoRoot, resolve(sCall.path))
        IN rel # <<>> /\ rel[1] = "..")
        => /\ sPc = "done"
           /\ sResult = Result(FALSE, "File path must be within the repository")
           /\ sFx = <<>>

\* readFile has refused ../.env, a secret name outside the repository.
C17_Witness ==
    /\ sCall = SandboxCall("readFile", PathOf(FALSE, <<"..", ".env">>), "", <<>>)
    /\ sPc = "done"
    /\ sResult.error = "File path must be within the repository"

\* ---- C18 (SpecSandbox)
\* A git_blame, git_log or git_show call with a metacharacter in its path,
\* grep pattern or revision, with a path that leaves the repository, or with
\* a revision that is no hash, HEAD[~^]N or branch name returns success:false
\* and no git process was spawned for it.
UnsafeStrings == {"a;b", "fix|feat", "HEAD;ls", "$(id)", "*"}

BadRevisions == {"", "123", "HEAD~", "v1.0", "-p", "HEAD;ls", "$(id)", "*"}

LeavesRepo(path) ==
    LET rel == relative(getRepoRoot, resolve(path))
    IN rel # <<>> /\ rel[1] = ".."

UnsafeGitCall(call) ==
    \/ /\ call.op \in {"gitBlame", "gitLog"}
       /\ \/ \E i \in 1..Len(call.path.segs) : call.path.segs[i] \in UnsafeStrings
          \/ LeavesRepo(call.path)
    \/ call.op = "gitLog" /\ call.text \in UnsafeStrings
    \/ call.op = "gitShow" /\ call.text \in UnsafeStrings \cup BadRevisions

C18_UnsafeGitRefused ==
    (sCall.op \in GitOps /\ sPc # "start" /\ UnsafeGitCall(sCall))
        => /\ sPc = "done"
           /\ ~sResult.success
           /\ sFx = <<>>

\* git_log was refused for its grep pattern, its path being fine.
C18_Witness ==
    /\ sCall = SandboxCall("gitLog", PathOf(FALSE, <<"src", "main.ts">>), "fix|feat", <<>>)
    /\ sPc = "done"
    /\ sResult.error = "Invalid characters in grep pattern"
    /\ sFx = <<>>

\* ---- C19 (SpecSandbox)
\* For every kind that has a command and every way the spawned command ends
\* (exit 0, exit non-zero, failure to start, timeout) runCheck returns
\* success:true with an exitCode; after a timeout the child was sent a kill
\* signal and the exitCode is -1.
C19_AlwaysExitCode ==
    (sCall.op = "runCheck" /\ sPc = "done"
        /\ sCall.text \in {"typecheck", "test", "lint", "build"})
        => /\ sResult.success
           /\ sResult.hasExit
           /\ sResult.error = "Command timed out"
                 => (sResult.exitCode = 0 - 1 /\ sFx = <<"spawn check", "kill SIGTERM">>)

\* ---- C16 (SpecMap)
\* pickFilesForCodebaseMap selects no secret path, buildFileDigest of a secret
\* path returns null without any filesystem access, and reviewCodebase's
\* mapping opens or reads no secret path.
IsSecretFile(path) ==
    \/ path[Len(path)] \in {".env", ".env.local", "server.pem", "id_rsa"}

C16_MappingSkipsSecrets ==
    /\ mPc \in {"mapping", "mapped"}
          => \A i \in 1..Len(mSelected) : ~IsSecretFile(mSelected[i])
    /\ (mPc = "returned" /\ IsSecretFile(mSelected[1]))
          => (mFx = {} /\ mDigests = <<>>)
    /\ \A access \in mFx :
          access.op \in {"open", "read"} => ~IsSecretFile(access.path)

\* The mapping of an index that lists .env as an entry point has finished
\* with a digest and without selecting .env.
C16_Witness ==
    /\ mPc = "mapped"
    /\ <<".env">> \in mEntry
    /\ <<"server.pem">> \in mAll
    /\ Len(mDigests) >= 1
    /\ Len(mSelected) = mMax

\* ---- C20 (SpecTools)
\* The timeout executeToolCall hands to runCheck is at most 60000 ms for
\* every timeoutMs of the model and every configured run_check.timeoutMs; a
\* requested 100000 becomes 60000.
C20_CheckTimeoutCapped ==
    (tPc = "settled" /\ tHanded.handed /\ tHanded.tool = "run_check")
        => /\ tHanded.timeout <= 60000
           /\ tCall.timeout = Some(100000) => tHanded.timeout = 60000

\* run_check was executed with timeoutMs 100000 and handed 60000.
C20_Witness ==
    /\ tPc = "settled"
    /\ tCall.name = "run_check"
    /\ tCall.timeout = Some(100000)
    /\ tHanded = Handed("run_check", 0, 60000)

\* ---- C24 (SpecDriver)
\* Within one invocation the conversation holds at most one finalize nudge,
\* and every nudge was pushed with the tool-call count within two of
\* maxToolCalls (and below it).
NudgeCount(msgs) == Cardinality({ i \in 1..Len(msgs) : msgs[i].nudge })

C24_NudgeOnce ==
    /\ NudgeCount(messages) <= 1
    /\ \A i \in 1..Len(messages) :
          messages[i].nudge => /\ messages[i].id >= maxToolCalls - 2
                               /\ messages[i].id < maxToolCalls

\* ---- C27 (SpecNorm)
\* Every finding the normalizer returns, from a final-report call or from
\* content, has one of the four severities; a payload severity that is one of
\* the four strings is kept, and any other string or a non-string gives info.
FourSeverities == {"critical", "major", "minor", "info"}

C27_SeverityInSet ==
    nOutcome.kind = "bugs" =>
        \A i \in 1..Len(nOutcome.bugs) :
            LET given == nPayload.bugs[i].severity
                got   == nOutcome.bugs[i].severity
            IN  /\ got \in FourSeverities
                /\ (given.t = "str" /\ given.s \in FourSeverities) => got = given.s
                /\ ~(given.t = "str" /\ given.s \in FourSeverities) => got = "info"

\* A returned list of two findings: one whose payload severity was the
\* unknown string 'blocker', one whose payload severity was a number.
C27_Witness ==
    /\ nOutcome.kind = "bugs"
    /\ Len(nOutcome.bugs) = 2
    /\ nPayload.bugs[1].severity = SevStr("blocker")
    /\ nPayload.bugs[2].severity.t = "num"
    /\ nOutcome.bugs[1].severity = "info"
    /\ nOutcome.bugs[2].severity = "info"

\* ---- C25 (SpecSandbox)
\* Every searchRepo call that returns success:true returns the same results
\* for the same arguments: the non-binary matches of all the files rg
\* searches, with no error message, however the call was settled.
C25_SameResults ==
    (sCall.op = "searchRepo" /\ sPc = "done" /\ sResult.success)
        => /\ sResult.paths = SearchResults(Searched(sCall.globs))
           /\ sResult.error = ""

\* ---- C26 (SpecSandbox)
\* A searchRepo call whose rg could not be started, or whose rg exited with a
\* code other than 0 or 1, returns success:false with a message.
C26_FailureReported ==
    (sCall.op = "searchRepo" /\ sPc = "done"
        /\ Len(sFx) = 2 /\ sFx[2] \in {"rg error", "rg exit 2"})
        => (~sResult.success /\ sResult.error # "")

\* ---- C21 (SpecReview)
\* Every response reviewCodebase returns holds exactly one finding with id
\* meta-coverage: it is the last one, has severity info and states the number
\* of indexed files and of files summarized; also when no file was indexed.
C21_OneCoverageFinding ==
    pPc = "returned" =>
        LET bugs == pResult.bugs
        IN  /\ Len(bugs) >= 1
            /\ bugs[Len(bugs)].id = "meta-coverage"
            /\ bugs[Len(bugs)].severity = "info"
            /\ bugs[Len(bugs)].indexed = pTotal
            /\ bugs[Len(bugs)].mapped = pDigests
            /\ \A i \in 1..(Len(bugs) - 1) : bugs[i].id # "meta-coverage"

\* ---- C22 (SpecReview)
\* Once a model call of reviewCodebase has failed (a file batch, a folder
\* batch or the review pass), reviewCodebase has failed: nothing is returned,
\* no request is in flight, and no further model call is sent.
C22_FailureIsFinal ==
    /\ [](pFailures > 0 => (pPc = "failed" /\ pResult = NoResponse /\ pInFlight = 0))
    /\ [][(pFailures > 0 /\ pFailures' > 0) => (pCalls' = pCalls /\ pPc' = "failed")]_vars

\* The second model call of a run failed after the first had succeeded.
C22_Witness ==
    /\ pPc = "failed"
    /\ pFailures = 1
    /\ pCalls = 2
    /\ pSelected > 0

\* ---- C23 (SpecReview)
\* The reports made to onProgress in one run carry fractions in [0, 1] that
\* never decrease, and stages that never move back in the order indexing,
\* mapping, summarizing, reviewing.
StageRank(stage) ==
    CASE stage = "indexing"    -> 1
      [] stage = "mapping"     -> 2
      [] stage = "summarizing" -> 3
      [] stage = "reviewing"   -> 4

C23_ProgressMonotone ==
    /\ \A k \in 1..Len(pReports) :
          /\ pReports[k].den > 0
          /\ 0 <= pReports[k].num
          /\ pReports[k].num <= pReports[k].den
    /\ \A k \in 1..(Len(pReports) - 1) :
          /\ pReports[k].num * pReports[k + 1].den
                <= pReports[k + 1].num * pReports[k].den
          /\ StageRank(pReports[k].stage) <= StageRank(pReports[k + 1].stage)

\* A run over three selected files, with two file batches and two folder
\* batches, has returned: thirteen reports were made.
C23_Witness ==
    /\ pPc = "returned"
    /\ pSelected = 3
    /\ Len(pReports) = 13

\* ---- C28 (SpecReview)
\* In every response a caller receives from reviewCode or reviewCodebase each
\* summary counter is the number of returned bugs of that severity and the
\* four add up to the number of bugs; a diff review whose driver parsed a
\* final report with bugs: [] returns no bug and four zero counters.
SeverityCount(bugs, severity) ==
    Cardinality({ i \in 1..Len(bugs) : bugs[i].severity = severity })

C28_SummaryCounts ==
    cResponse.returned =>
        LET bugs == cResponse.bugs
            s == cResponse.summary
        IN  /\ s.critical = SeverityCount(bugs, "critical")
            /\ s.major = SeverityCount(bugs, "major")
            /\ s.minor = SeverityCount(bugs, "minor")
            /\ s.info = SeverityCount(bugs, "info")
            /\ s.critical + s.major + s.minor + s.info = Len(bugs)
            /\ (cMode = "diff" /\ result.bugs = <<>>)
                  => (bugs = <<>> /\ s = [critical |-> 0, major |-> 0,
                                          minor |-> 0, info |-> 0])

\* A diff review returned after the driver executed and answered a grounding
\* call and then received a final report with no bug.
C28_Witness ==
    /\ cMode = "diff"
    /\ cResponse.returned
    /\ cResponse.bugs = <<>>
    /\ \E i \in 1..Len(messages) : messages[i].role = "tool"

\* A codebase review returned two findings of the model and the coverage
\* finding, counted as one critical and two info.
C28_WitnessCodebase ==
    /\ cMode = "codebase"
    /\ cResponse.returned
    /\ Len(cResponse.bugs) = 3
    /\ cResponse.summary.critical = 1
    /\ cResponse.summary.info = 2

\* ---- C29 (SpecReview)
\* At most one model request of reviewCodebase is in flight; while the driver
\* awaits a model response every call handed to executeToolCall has been
\* answered, and while it executes a tool exactly one has not.
ToolMessages(msgs) == Cardinality({ i \in 1..Len(msgs) : msgs[i].role = "tool" })

C29_Sequential ==
    /\ pInFlight <= 1
    /\ pCalls - pInFlight >= 0
    /\ pc = "awaiting" => ToolMessages(messages) = Len(executed)
    /\ pc = "executing" => ToolMessages(messages) + 1 = Len(executed)

\* The second folder batch is in flight after two file batches and one
\* folder batch have settled.
C29_Witness ==
    /\ pPc = "folderBatches"
    /\ pBatches = 2
    /\ pI = 2
    /\ pInFlight = 1
    /\ pCalls = 4

\* The driver is executing the second tool call of a turn.
C29_WitnessDriver ==
    /\ pc = "executing"
    /\ idx = 2
    /\ requests >= 1
    /\ cPc = "reviewing"

\* ---- C30 (SpecReview)
\* On both paths a diff that is empty or holds only whitespace leads to the
\* message 'No changes to review.' and to no call of reviewCode, so the
\* driver sends no request.
BlankDiff(diff) == \A i \in 1..Len(diff) : diff[i] \in {" ", "\n", "\t"}

C30_BlankDiffNotReviewed ==
    (cMode = "diff" /\ BlankDiff(cDiff)) =>
        /\ cReviewCalls = 0
        /\ pc = "idle"
        /\ requests = 0
        /\ cPc \in {"start", "failed"}
              \/ (cPc = "done" /\ cMessage = "No changes to review.")

\* The headless path has reported a diff of a blank and a line break, with
\* one changed file listed, as no changes.
C30_Witness ==
    /\ cPath = "headless"
    /\ cDiff = <<" ", "\n">>
    /\ cFiles = 1
    /\ cPc = "done"
    /\ cMessage = "No changes to review."

\* The interactive path has done the same.
C30_WitnessInteractive ==
    /\ cPath = "interactive"
    /\ cDiff = <<"\n", " ">>
    /\ cPc = "done"
    /\ cMessage = "No changes to review."

\* ---- C31 (SpecDriverFair)
\* When every request and every tool execution settles, the driver ends with
\* findings or with an error, and it never sends more than maxToolCalls
\* requests: none at all when maxToolCalls is zero or negative.
C31_Terminates ==
    /\ [](requests <= (IF maxToolCalls > 0 THEN maxToolCalls ELSE 0))
    /\ <>(pc \in {"done", "failed"})

\* The budget error after three turns of one tool call each: three requests
\* were sent with maxToolCalls = 3.
C31_Witness ==
    /\ pc = "failed"
    /\ result.error = "budget"
    /\ maxToolCalls = 3
    /\ requests = 3

\* With maxToolCalls = 0 the driver failed without a request.
C31_WitnessZero ==
    /\ pc = "failed"
    /\ maxToolCalls = 0
    /\ requests = 0

\* ---- C32 (SpecFetch)
\* A response with status 429, 502, 503, 504 or 408 received with fewer than
\* maxRetries retries made is drained, then the backoff is waited out, and
\* only then does the next attempt start; a response with any other status,
\* or one received on the last attempt, is returned at once; no attempt
\* follows a response in any other way.
RetriedStatuses == {429, 502, 503, 504, 408}

LastAnswer == IF fLog = <<>> THEN Failed(NoError) ELSE fLog[Len(fLog)]

C32_RetryOnlyOnStatus ==
    /\ [][(Len(fLog') = Len(fLog) + 1 /\ fLog'[Len(fLog')].kind = "status")
            => IF fLog'[Len(fLog')].status \in RetriedStatuses
                  /\ Len(fLog) < fMaxRetries
               THEN fPc' = "draining"
               ELSE fPc' = "returned" /\ fResult' = fLog'[Len(fLog')].status]_vars
    /\ [][fPc = "draining" => fPc' \in {"draining", "backoff"}]_vars
    /\ [][(fPc # "fetching" /\ fPc' = "fetching" /\ LastAnswer.kind = "status")
            => /\ fPc = "backoff"
               /\ LastAnswer.status \in RetriedStatuses
               /\ Len(fLog) <= fMaxRetries]_vars
    /\ [][fPc = "returned" => fPc' = "returned"]_vars

\* The second attempt is in flight after a 429 answer to the first.
C32_Witness ==
    /\ fPc = "fetching"
    /\ Len(fLog) = 1
    /\ fLog[1] = Answered(429)
    /\ attempt = 1

\* ---- C40 (SpecFetch)
\* When fetchWithRetry has thrown, the number of attempts its message states
\* is the number of HTTP attempts it started.
C40_AttemptsStated ==
    fPc = "thrown" => AttemptsStated = Len(fLog)

\* ---- C36 (SpecDriver)
\* While a request is in flight, the conversation it carries holds, for every
\* tool call of every assistant message, a role=tool message with that call's
\* id further on; a batch cut short at the budget is followed by no request.
C36_RequestsAnswerEveryCall ==
    pc = "awaiting" =>
        \A i \in 1..Len(messages) :
            messages[i].role = "assistant" =>
                \A k \in 1..Len(messages[i].calls) :
                    \E j \in (i + 1)..Len(messages) :
                        /\ messages[j].role = "tool"
                        /\ messages[j].id = messages[i].calls[k]

\* The second request is in flight after a turn with a batch of two, both
\* executed and answered.
C36_Witness ==
    /\ pc = "awaiting"
    /\ requests = 2
    /\ Len(messages) >= 5
    /\ messages[3].role = "assistant"
    /\ Len(messages[3].calls) = 2

\* The budget was hit at the first call of a batch of two: the driver failed
\* with the second call unanswered and sent no further request.
C36_WitnessCut ==
    /\ pc = "failed"
    /\ result.error = "budget"
    /\ Len(batch) = 2
    /\ Len(executed) < Len(emitted)

\* ---- C39 (SpecSandbox)
\* runCheck reports exitCode 0 only when the command exited normally with
\* status 0: a command that a signal ended (close with a null exit code) is
\* never reported with exitCode 0.
C39_ZeroOnlyAfterExitZero ==
    (sCall.op = "runCheck" /\ sPc = "done" /\ sResult.success
        /\ sResult.hasExit /\ sResult.exitCode = 0)
        => sFx = <<"spawn check", "check exit 0">>

\* ---- C38 (SpecSandboxFair)
\* Every tool execution that was started eventually yields a ToolResult,
\* also when the child process it spawned never exits and never writes
\* output.
C38_ToolsSettle == <>(sPc = "done")

\* ---- C34 (SpecLimit)
\* mapLimit never has more than max(1, min(concurrency, number of items))
\* mapper calls in flight, calls the mapper exactly once per item, and stores
\* each result at its item's index whatever the order the calls settle in.
PoolBound ==
    LET n == Len(lItems)
        least == IF lConcurrency < n THEN lConcurrency ELSE n
    IN  IF least >= 1 THEN least ELSE 1

C34_BoundedPool ==
    lPc \in {"running", "returned"}
        => /\ InFlight <= PoolBound
           /\ \A i \in DOMAIN lCalls : lCalls[i] <= 1
           /\ \A i \in DOMAIN lResults :
                 lResults[i].set => lResults[i].path = lItems[i + 1]
           /\ lPc = "returned"
                 => /\ DOMAIN lResults = 0..(Len(lItems) - 1)
                    /\ \A i \in DOMAIN lResults :
                          lCalls[i] = 1 /\ lResults[i].set

\* Three items were mapped two at a time and the call for the second item
\* settled while the one for the first was still awaited.
C34_Witness ==
    /\ lPc = "running"
    /\ Len(lItems) = 3
    /\ lConcurrency = 2
    /\ InFlight = 2
    /\ lResults[1].set
    /\ ~lResults[0].set

\* All three items were mapped with concurrency 16 and the results returned.
C34_WitnessReturned ==
    /\ lPc = "returned"
    /\ Len(lItems) = 3
    /\ lConcurrency = 16
    /\ lResults[2] = StatResult("c.ts", TRUE)
    /\ lResults[0] = StatResult("a.ts", FALSE)

\* ---- C35 (SpecChunk)
\* Every prompt batch chunkByCharBudget produces is at most 28,000 characters
\* long, also when a single rendered item is itself longer than that.
C35_BatchWithinBudget ==
    kPc = "cut" => \A i \in 1..Len(chunks) : chunks[i] <= 28000

\* As long as no single rendered item is longer than 28,000 characters,
\* every batch is within the budget.
C35_WithinBudgetForSmallItems ==
    (kPc = "cut" /\ \A j \in 1..Len(kItems) : kItems[j].len <= 28000)
        => \A i \in 1..Len(chunks) : chunks[i] <= 28000

\* ---- C33 (SpecPolicy)
\* When toolsConfig.enabled is false, reviewCode and reviewCodebase execute
\* no sandbox tool at all: they send one single-shot request with the
\* final-report tool forced, the driver is never started, and a grounding
\* tool call found in the response is never executed.
C33_DisabledMeansNoTools ==
    (gPc # "idle" /\ ~gEnabled)
        => /\ pc = "idle"
           /\ executed = <<>>
           /\ toolCallCount = 0
           /\ requests = 0
           /\ gPc # "start" => gRequest = ForcedReport
           /\ gPc = "grounded" => FALSE

\* With tools disabled the single-shot response held a read_file call next
\* to the final report: the report was returned and nothing was executed.
C33_Witness ==
    /\ ~gEnabled
    /\ gPc = "returned"
    /\ Len(gResponse) = 2
    /\ gResponse[1].name = "read_file"
    /\ gResponse[2].name = "report_code_review"
    /\ gOutcome.kind = "bugs"
    /\ executed = <<>>

\* The same in reviewCodebase, the response holding grounding calls only.
C33_WitnessCodebase ==
    /\ ~gEnabled
    /\ gEntry = "reviewCodebase"
    /\ gPc = "thrown"
    /\ Len(gResponse) = 1
    /\ gResponse[1].name = "search_repo"
    /\ gOutcome = Threw("no-report-call")

\* ---- C37 (SpecPolicy)
\* During reviewCodebase the grounded review pass executes at most
\* toolsConfig.maxToolCalls tool calls, toolsConfig being the caller's
\* policy object, for every value of it.
C37_CallerBudgetHolds ==
    (gEntry = "reviewCodebase" /\ gEnabled) => toolCallCount <= gMaxToolCalls

\* In reviewCode, which hands the caller's object on, and in reviewCodebase
\* under a budget of 20 or more, the caller's budget is kept.
C37_BudgetHoldsFromTwenty ==
    (gEnabled /\ (gEntry = "reviewCode" \/ gMaxToolCalls >= 20))
        => toolCallCount <= gMaxToolCalls

====
